---- MODULE Spec2Model ----
(***************************************************************************)
(* Persistence engine of the menu server (src/server.js): the cached read  *)
(* of data.json, the locked and retried temp-file-then-rename write, the   *)
(* id assignment of POST /api/menu, and the request handlers that use      *)
(* them.  One step of the model is the code a request runs between two     *)
(* real suspensions (file I/O or a timer); awaits that only yield to the   *)
(* microtask queue (acquireLock, a cache hit) do not let another request   *)
(* run and are part of the step.                                           *)
(***************************************************************************)
EXTENDS Integers, Sequences, FiniteSets, TLC

\* ---------------------------------------------------------------- bounds
MaxId    == 1      \* no new create starts once an id this high is persisted
MaxLen   == 2      \* no new create starts once an array this long exists
MaxTicks == 1      \* the clock advances at most this many times
MaxItems == 2      \* the public page renders at most this many items
MaxDay   == 3      \* calendar days 0..MaxDay (day 0 falls on weekday 0)
MaxTod   == 2      \* times of day 0..MaxTod
MaxTokens == 2     \* generateCSRFToken is called at most this many times
MaxLock  == 1      \* the login clock runs for MaxLock lockout times and a bit
MaxImport == 2     \* an import body holds at most this many items
MaxHours == 1      \* the cleanup clock runs for MaxHours cleanup delays and a bit
MaxCalls == 2      \* the admin page has at most this many suspended calls
MaxChecks == 2     \* the public page has at most this many update checks in flight

\* ------------------------------------------------------ program constants
CACHE_TTL  == 5000
maxRetries == 5
MAX_LOGIN_ATTEMPTS == 5
LOGIN_LOCKOUT_TIME == 900000
CLEANUP_DELAY == 3600000      \* 60 * 60 * 1000, the delay and the age of the cleanup

Procs  == {1, 2}                \* request slots: two requests in flight at a time
ArrIds == {1, 2, 3}             \* array objects alive on the JS heap
Null   == 0                     \* cache.menuData = null
NoMaxId == -1                   \* cache.maxId = null
Names  == {"a"}                 \* names given to new items
EditNames == {"b"}              \* names an update puts
InvalidNames == {""}            \* names that validateMenuItem rejects
\* req.body.image: the field absent, null, or a string (empty, blank, base64)
Undefined == "undefined"
JsNull == "null"
BodyImages == {Undefined, JsNull, "", " ", "img"}
Sids   == {"sidA", "sidB"}      \* session cookies
Ips    == {"ipA", "ipB"}        \* client addresses (req.ip)
\* req.body.password: absent, of another length than ADMIN_PASSWORD, of its
\* length but different, equal to it
ADMIN_PASSWORD == "right"
Passwords == {Undefined, "short", "wrong", ADMIN_PASSWORD}
\* a CSRF token is a positive number; the values a session or a request has
\* in its place:
NoToken   == 0                  \* session.csrfToken is undefined
Absent    == -1                 \* no x-csrf-token header and no body._csrf
Malformed == -2                 \* a token whose length differs from a real one
TickMs == CACHE_TTL            \* one clock step; ages 0, TTL and 2*TTL all occur
T0     == 2 * CACHE_TTL        \* Date.now() when the server starts (far from timestamp 0)

DATA_FILE     == "data.json"
SETTINGS_FILE == "settings.json"
Colls == {"menuData", "settings"}
Paths == {"data.json", "data.json.tmp", "settings.json", "settings.json.tmp"}

Min(S) == CHOOSE x \in S : \A y \in S : x <= y
Max2(a, b) == IF a >= b THEN a ELSE b

\* ------------------------------------------------------------ JS values
\* A JSON-serialisable value: an array of items, a plain object, or nothing.
\* filterCategories of a settings object: the field absent, a value that is
\* not an array, or an array of categories (each reduced to its category name)
NoCats      == [kind |-> "absent", elems |-> <<>>]
NotArray    == [kind |-> "other", elems |-> <<>>]
Cats(elems) == [kind |-> "array", elems |-> elems]

\* The colours and sizes of a settings object.  A colour is a string, kept as
\* the sequence of its characters; a size is a number, kept in hundredths.
Colours == {"primaryColor", "secondaryColor", "textColor", "accentColor"}
Knobs   == {"headingFontSize", "itemNameSize", "descriptionSize", "priceSize",
            "cardOpacity", "gridGap"}
Knobbed(colours, sizes) == [colours |-> colours, sizes |-> sizes]
\* an object without colours and sizes
NoKnobs == Knobbed([c \in Colours |-> <<>>], [k \in Knobs |-> 0])

NoVal      == [k |-> "none", items |-> <<>>, v |-> NoKnobs, fc |-> NoCats]
JArr(its)  == [k |-> "arr", items |-> its, v |-> NoKnobs, fc |-> NoCats]
JSettings(v, fc) == [k |-> "obj", items |-> <<>>, v |-> v, fc |-> fc]
JObj(v)    == JSettings(v, NoCats)
NoItem     == [id |-> 0, name |-> ""]

\* The argument of a write call: a reference to an array on the heap, an
\* object, or a value that is neither (null, a string, a number).
NoData  == [k |-> "none", ref |-> 0, v |-> NoKnobs, fc |-> NoCats]
DRef(a) == [k |-> "arr", ref |-> a, v |-> NoKnobs, fc |-> NoCats]
DSettings(v, fc) == [k |-> "obj", ref |-> 0, v |-> v, fc |-> fc]
DObj(v) == DSettings(v, NoCats)
DBad    == [k |-> "bad", ref |-> 0, v |-> NoKnobs, fc |-> NoCats]

\* ------------------------------------------------------------ file system
\* A path holds no file, the complete text of a serialised value, or a
\* truncated text (an interrupted writeFile, or a damaged file).
Missing      == [kind |-> "missing", val |-> NoVal, complete |-> FALSE]
Text(val)    == [kind |-> "text", val |-> val, complete |-> TRUE]
Partial(val) == [kind |-> "text", val |-> val, complete |-> FALSE]

fileOf(ft) == IF ft = "menuData" THEN DATA_FILE ELSE SETTINGS_FILE

\* the payload written straight into the real file
tempFileInPlace(ft) == fileOf(ft)

tempFile(ft) == IF ft = "menuData" THEN "data.json.tmp" ELSE "settings.json.tmp"

\* fs.writeFile(path, text): all of the text, or a prefix of it and a throw
writeFile(f, path, val, outcome) ==
  IF outcome = "ok" THEN [f EXCEPT ![path] = Text(val)]
                    ELSE [f EXCEPT ![path] = Partial(val)]

\* fs.rename(from, to): atomic replacement of the target
renameDropped(f, from, to) == [f EXCEPT ![from] = Missing]

rename(f, from, to) ==
  IF from = to THEN f ELSE [f EXCEPT ![to] = f[from], ![from] = Missing]

\* an unlink that leaves the file where it is
unlinkKept(f, path) == f

\* fs.unlink(path)
unlink(f, path) == [f EXCEPT ![path] = Missing]

\* JSON.stringify(data, null, 2) of the argument as it is now on the heap
stringify(hp, data) ==
  IF data.k = "arr" THEN JArr(hp[data.ref]) ELSE JSettings(data.v, data.fc)

\* JSON.parse succeeds on a complete text only
parseOk(content) == content.kind = "text" /\ content.complete

\* ------------------------------------------------------------ pure helpers
RECURSIVE getMaxIdLoop(_, _, _)
getMaxIdLoop(data, i, maxId) ==
  IF i > Len(data) THEN maxId
  ELSE getMaxIdLoop(data, i + 1, IF data[i].id > maxId THEN data[i].id ELSE maxId)

getMaxId(data) == IF Len(data) = 0 THEN 0 ELSE getMaxIdLoop(data, 1, 0)

findIndexLoose(data, itemId) ==
  IF \E i \in 1..Len(data) : data[i].id <= itemId
  THEN Min({i \in 1..Len(data) : data[i].id <= itemId})
  ELSE 0

\* menuData.findIndex(item => item.id === itemId), 0 for -1
findIndex(data, itemId) ==
  IF \E i \in 1..Len(data) : data[i].id = itemId
  THEN Min({i \in 1..Len(data) : data[i].id = itemId})
  ELSE 0

\* import: validItems, the body's items that pass validateMenuItem, each with
\* its id if that is positive (0: no id)
validItems(data) ==
  LET kept == SelectSeq(data, LAMBDA item : item.name # "")
  IN [i \in 1..Len(kept) |->
        [id |-> IF kept[i].id > 0 THEN kept[i].id ELSE 0, name |-> kept[i].name,
         image |-> Undefined]]

\* import: items without an id get nextId++ ([data, nextId] after the loop)
RECURSIVE assignMissing(_, _, _)
assignMissing(data, i, nextId) ==
  IF i > Len(data) THEN [data |-> data, nextId |-> nextId]
  ELSE IF data[i].id <= 0
       THEN assignMissing([data EXCEPT ![i].id = nextId], i + 1, nextId + 1)
       ELSE assignMissing(data, i + 1, nextId)

\* an import that leaves conflicting ids as they are
resolveConflictsNone(data, i, nextId, idSet) == data

\* import: an item whose id is in idSet already gets nextId++
RECURSIVE resolveConflicts(_, _, _, _)
resolveConflicts(data, i, nextId, idSet) ==
  IF i > Len(data) THEN data
  ELSE IF data[i].id \in idSet
       THEN resolveConflicts([data EXCEPT ![i].id = nextId], i + 1, nextId + 1,
                             idSet \cup {nextId})
       ELSE resolveConflicts(data, i + 1, nextId, idSet \cup {data[i].id})

\* import: the ids of finalData, counted on from maxId
assignIds(finalData, maxId) ==
  LET m == assignMissing(finalData, 1, maxId + 1)
  IN resolveConflicts(m.data, 1, m.nextId, {})

\* menuData.filter(item => item.id !== itemId)
filterOut(data, itemId) == SelectSeq(data, LAMBDA it : it.id # itemId)

getDefaultFilterCategories ==
  <<"starters", "lorem ipsum", "chicken burgers", "fries", "dessert", "drinks",
    "add ons", "dips">>

\* getDefaultSettings(): the default colours
defaultColor(c) ==
  CASE c = "primaryColor"   -> <<"#", "0", "d", "3", "b", "2", "e">>
    [] c = "secondaryColor" -> <<"#", "1", "a", "5", "c", "4", "a">>
    [] c = "textColor"      -> <<"#", "f", "f", "f", "f", "f", "f">>
    [] OTHER                -> <<"#", "f", "f", "d", "7", "0", "0">>

\* the default of each size and the range it is clamped to, in hundredths
\* (clamp(settings.headingFontSize, 2, 8, 4), ...)
knobRange(k) ==
  CASE k = "headingFontSize" -> [min |-> 200, max |-> 800, defaultValue |-> 400]
    [] k = "itemNameSize"    -> [min |-> 100, max |-> 300, defaultValue |-> 180]
    [] k = "descriptionSize" -> [min |-> 70,  max |-> 150, defaultValue |-> 95]
    [] k = "priceSize"       -> [min |-> 100, max |-> 300, defaultValue |-> 150]
    [] k = "cardOpacity"     -> [min |-> 0,   max |-> 100, defaultValue |-> 5]
    [] OTHER                 -> [min |-> 50,  max |-> 500, defaultValue |-> 200]

\* getDefaultSettings(): the default colours and sizes and the default
\* filter categories
getDefaultSettings ==
  JSettings(Knobbed([c \in Colours |-> defaultColor(c)],
                    [k \in Knobs |-> knobRange(k).defaultValue]),
            Cats(getDefaultFilterCategories))

\* A field of req.body: absent, a string (its characters), a number (in
\* hundredths), or another value (true, an object)
FieldAbsent  == [kind |-> "undefined", chars |-> <<>>, x |-> 0]
FieldStr(cs) == [kind |-> "string", chars |-> cs, x |-> 0]
FieldNum(x)  == [kind |-> "number", chars |-> <<>>, x |-> x]
FieldOther   == [kind |-> "other", chars |-> <<>>, x |-> 0]

HexDigits == {"0", "1", "2", "3", "4", "5", "6", "7", "8", "9",
              "a", "b", "c", "d", "e", "f", "A", "B", "C", "D", "E", "F"}

\* a test that accepts the three-digit form as well
colorRegexShort(cs) ==
  /\ Len(cs) \in {4, 7} /\ cs[1] = "#"
  /\ \A i \in 2..Len(cs) : cs[i] \in HexDigits

\* colorRegex = /^#[0-9A-F]{6}$/i
colorRegex(cs) ==
  /\ Len(cs) = 7 /\ cs[1] = "#"
  /\ \A i \in 2..7 : cs[i] \in HexDigits

\* validateColor(color, defaultColor)
validateColor(color, dflt) ==
  IF color.kind # "string" \/ color.chars = <<>> THEN dflt
  ELSE IF colorRegex(color.chars) THEN color.chars ELSE dflt

\* parseFloat(value): a number stays, a string is read as the number it
\* starts with, anything else is NaN
NaN == [isNaN |-> TRUE, x |-> 0]
Num(x) == [isNaN |-> FALSE, x |-> x]
\* the strings of the model: "abc" starts with no number, "2.5rem" with 2.5
leadingNumber(cs) == IF cs = <<"2", ".", "5", "r", "e", "m">> THEN Num(250) ELSE NaN
parseFloat(value) ==
  CASE value.kind = "number" -> Num(value.x)
    [] value.kind = "string" -> leadingNumber(value.chars)
    [] OTHER -> NaN

\* a clamp without the upper limit
clampOpen(value, min, max, defaultValue) ==
  LET num == parseFloat(value)
  IN IF num.isNaN THEN defaultValue ELSE Max2(min, num.x)

\* clamp(value, min, max, defaultValue): Math.max(min, Math.min(max, num))
clamp(value, min, max, defaultValue) ==
  LET num == parseFloat(value)
  IN IF num.isNaN THEN defaultValue ELSE Max2(min, IF max <= num.x THEN max ELSE num.x)

\* PUT /api/settings: the colours and sizes of validSettings
validSettings(settings) ==
  Knobbed([c \in Colours |-> validateColor(settings.colours[c], defaultColor(c))],
          [k \in Knobs |-> clamp(settings.sizes[k], knobRange(k).min, knobRange(k).max,
                                  knobRange(k).defaultValue)])

\* req.body of PUT /api/settings: its colour and size fields
Body(colours, sizes) == [colours |-> colours, sizes |-> sizes]
EmptyBody == Body([c \in Colours |-> FieldAbsent], [k \in Knobs |-> FieldAbsent])
\* the body the settings requests of the menu scenarios send
SettingsVals ==
  {Body([c \in Colours |-> FieldStr(<<"#", "0", "0", "0", "0", "0", "0">>)],
        [k \in Knobs |-> FieldNum(250)])}

\* String(f.category).trim().toLowerCase()
normalise(category) == IF category = "Fries " THEN "fries" ELSE category

\* PUT /api/settings: the body's filterCategories filtered and mapped when
\* they are an array, the defaults otherwise
validFilterCategories(fc) ==
  IF fc.kind = "array"
  THEN LET kept == SelectSeq(fc.elems, LAMBDA f : f # "")
       IN Cats([i \in 1..Len(kept) |-> normalise(kept[i])])
  ELSE Cats(getDefaultFilterCategories)

\* readSettings: if (!settings.filterCategories || !Array.isArray(...)) the
\* parsed object gets the default filter categories
withFilterCategories(settings) ==
  IF settings.fc.kind # "array"
  THEN [settings EXCEPT !.fc = Cats(getDefaultFilterCategories)]
  ELSE settings

\* cache.settings && now - cache.settingsTimestamp < cache.CACHE_TTL
settingsCacheValid(c, t) == c.settings # NoVal /\ t - c.settingsTimestamp < CACHE_TTL

cacheValid(c, t) == c.menuData # Null /\ t - c.menuDataTimestamp < CACHE_TTL

maxIdStale(c, t) == c.maxId = NoMaxId \/ t - c.maxIdTimestamp > CACHE_TTL

\* a lock that does not look at the flag
acquireLockBlind(locks, ft) == TRUE

\* acquireLock: TRUE when the flag was free (the caller then sets it)
acquireLock(locks, ft) == ~locks[ft]

\* a release that leaves the flag set
releaseLockLeaky(locks, ft) == locks

releaseLock(locks, ft) == [locks EXCEPT ![ft] = FALSE]

\* Array.isArray(data) for menu data; data && typeof data === "object" for settings
validArg(ft, data) == IF ft = "menuData" THEN data.k = "arr" ELSE data.k \in {"arr", "obj"}

\* giving up reported as success
failureResultTrue == TRUE

\* what the write call returns when it gives up: `return false`
failureResult == FALSE

\* every read error taken for a missing file
isENOENTAnyError(content) == ~(content.kind = "text" /\ content.complete)

\* error.code === "ENOENT": the read failed because the file does not exist
isENOENT(content) == content.kind = "missing"

\* a loop that runs one round too many
hasNextAttemptOffByOne(attempt) == attempt + 1 <= maxRetries

\* for (attempt = 0; attempt < maxRetries; attempt++): is there another round?
hasNextAttempt(attempt) == attempt + 1 < maxRetries

\* the catch block: attempt < maxRetries - 1 waits and continues
retryAfterError(attempt) == attempt < maxRetries - 1

\* JS truthiness of a body field
truthy(v) == v \notin {Undefined, JsNull, ""}

\* String(v).trim()
trim(v) == IF v = " " THEN "" ELSE v

\* POST: image ? String(image).trim() : null
newImage(image) == IF truthy(image) THEN trim(image) ELSE JsNull

\* PUT: image !== undefined ? (image ? String(image).trim() : null)
\*                          : existingItem?.image || null
updatedImage(image, existing) ==
  IF image # Undefined
  THEN (IF truthy(image) THEN trim(image) ELSE JsNull)
  ELSE (IF truthy(existing) THEN existing ELSE JsNull)

\* menuData.find(item => item.id === itemId)?.image
existingImage(data, itemId) ==
  IF \E i \in 1..Len(data) : data[i].id = itemId
  THEN data[Min({i \in 1..Len(data) : data[i].id = itemId})].image
  ELSE Undefined

\* validateMenuItem(item).valid, for an item reduced to its name
validateMenuItem(name) == name # ""

\* a session that was never logged in and never asked for a token
NoSession == [isAuthenticated |-> FALSE, csrfToken |-> NoToken]

\* a gate that lets every session pass
requireAuthOpen(session) == TRUE

\* requireAuth: next() if req.session.isAuthenticated, 401 otherwise
requireAuth(session) == session.isAuthenticated

\* crypto.randomBytes(32).toString("hex"): a token that was never issued
generateCSRFToken(issued) == issued + 1

\* validateCSRFToken(token, session); crypto.timingSafeEqual throws on
\* buffers of different lengths
validateCSRFToken(token, session) ==
  IF token = Absent \/ session.csrfToken = NoToken THEN "false"
  ELSE IF token = Malformed THEN "throws"
  ELSE IF token = session.csrfToken THEN "true" ELSE "false"

\* loginAttempts.get(clientIp): no entry, or count, lastAttempt and
\* lockedUntil (0: undefined)
NoAttempts == [present |-> FALSE, count |-> 0, lastAttempt |-> 0, lockedUntil |-> 0]

\* a lockout that ends a millisecond early
lockedOutShort(attempts, t) ==
  attempts.present /\ attempts.lockedUntil # 0 /\ t + 1 < attempts.lockedUntil

\* rateLimitLogin answers 429: attempts.lockedUntil && now < attempts.lockedUntil
lockedOut(attempts, t) ==
  attempts.present /\ attempts.lockedUntil # 0 /\ t < attempts.lockedUntil

\* rateLimitLogin lets the request pass: an entry whose lockout expired is deleted
rateLimitLogin(attempts, t) ==
  IF attempts.present /\ attempts.lockedUntil # 0 /\ t >= attempts.lockedUntil
  THEN NoAttempts ELSE attempts

recordFailedLogin(attempts, t) ==
  LET count == (IF attempts.present THEN attempts.count ELSE 0) + 1
  IN IF count >= MAX_LOGIN_ATTEMPTS
     THEN [present |-> TRUE, count |-> 0, lastAttempt |-> t,
           lockedUntil |-> t + LOGIN_LOCKOUT_TIME]
     ELSE [present |-> TRUE, count |-> count, lastAttempt |-> t,
           lockedUntil |-> IF attempts.present THEN attempts.lockedUntil ELSE 0]

\* the timer recordFailedLogin sets at time t: its callback keeps clientIp
\* and the `now` of that call, and runs CLEANUP_DELAY later
cleanupTimer(ip, t) == [ip |-> ip, now |-> t, due |-> t + CLEANUP_DELAY]

\* the callback: if (entry && now - entry.lastAttempt > 60 * 60 * 1000) delete
cleanup(attempts, tm) ==
  IF attempts.present /\ tm.now - attempts.lastAttempt > CLEANUP_DELAY
  THEN NoAttempts ELSE attempts

\* the password check of POST /api/auth/login: "400" for a missing password,
\* "401" for a wrong one (of another length or not), "ok"
checkPassword(password) ==
  IF password = Undefined THEN "400"
  ELSE IF password = "short" THEN "401"
  ELSE IF password = ADMIN_PASSWORD THEN "ok" ELSE "401"

\* ------------------------------------------------------------------ state
VARIABLES
  fs,         \* path -> content of the file
  cache,      \* the cache object: menuData, menuDataTimestamp, maxId, maxIdTimestamp
  fileLocks,  \* fileLocks[fileType]
  heap,       \* the arrays that handlers and the cache share by reference
  now,        \* Date.now()
  req,        \* per request slot: the handler, where it is suspended, its locals
  hist,       \* history variables (observations only, never read by the code)
  page,       \* the public page: the items it loaded and the cards it rendered
  service,    \* the menu service: an item's schedule, the instant, the evaluation
  sessions,   \* the session store (req.session per cookie) and the tokens issued
  loginAttempts,  \* the loginAttempts map, by client address
  timers,     \* the cleanup timers recordFailedLogin has set and that are pending
  admin       \* the admin page: the item form, its modal and the suspended calls

vars == <<fs, cache, fileLocks, heap, now, req, hist, page, service, sessions,
          loginAttempts, timers, admin>>

\* A request slot.  op/pc say which handler runs and where it is suspended;
\* coll, data, attempt, payload are the locals of the write call it is in;
\* caller says who awaits that write call; rnow and buf are the locals of
\* readMenuData.  session and token are req.session and the CSRF token of a
\* request that came through requireAuth; items are the validItems of an
\* import; body is req.body of a settings update.  acq, touched, renamed, isNext and threwAt (the last attempt of
\* the write call at which writeFile or rename threw, 0: none) are history fields.
ReqIdle ==
  [op |-> "idle", pc |-> "idle", coll |-> "none", caller |-> "none",
   rnow |-> 0, buf |-> Missing, data |-> NoData,
   id |-> 0, name |-> "", image |-> Undefined, attempt |-> 0, payload |-> NoVal,
   session |-> NoSession, token |-> Absent, items |-> <<>>, body |-> EmptyBody,
   acq |-> FALSE, touched |-> FALSE, renamed |-> FALSE, isNext |-> FALSE,
   threwAt |-> 0]

\* observations of the step just taken (reset by the next step)
NoLast  == [op |-> "none", res |-> "none", item |-> NoItem, src |-> "none",
            image |-> Undefined, settings |-> NoVal]
NoLastW == [coll |-> "none", res |-> FALSE, acq |-> FALSE, touched |-> FALSE,
            renamed |-> FALSE, tries |-> 0, threwAt |-> 0]
NoObs   == [seen |-> FALSE, got |-> <<>>, want |-> <<>>]
NoBefore == [file |-> Missing, cache |-> [menuData |-> Null, menuDataTimestamp |-> 0,
                                          maxId |-> NoMaxId, maxIdTimestamp |-> 0,
                                          settings |-> NoVal, settingsTimestamp |-> 0],
             items |-> <<>>]
NoSettingsObs == [seen |-> FALSE, got |-> NoVal, want |-> NoVal]
\* the login request of the step just taken, the session as it was before,
\* and since when its address had been locked (0: not)
NoLogin == [seen |-> FALSE, sid |-> "none", ip |-> "none", password |-> Undefined,
            res |-> "none", wasAuthenticated |-> FALSE, lockedAt |-> 0]
NoFallback == [src |-> "none", got |-> <<>>, hadCache |-> FALSE, cached |-> <<>>]
\* the id a create just assigned and the highest id of the array it was
\* assigned for (menuData before the push), and whether the cached maximum was used
NoAssigned == [seen |-> FALSE, newId |-> 0, highest |-> 0, cached |-> FALSE]

WritePcs    == {"w_wait", "w_write", "w_rename", "w_renamed", "w_unlink"}
TempSection == {"w_write", "w_rename", "w_renamed", "w_unlink"}

\* what data.json can hold when the server starts: nothing, a damaged file,
\* valid JSON that is not an array, an empty array
InitFiles == {Missing, Partial(JObj(NoKnobs)), Text(JObj(NoKnobs)), Text(JArr(<<>>))}

\* ------------------------------------------------------ the public page
\* JS values of item.available and scheduleAvailability.isAvailable
JsBool == {"true", "false", "undefined"}

\* item.scheduleAvailability: absent, or an object with isAvailable
ScheduleInfos ==
  {[present |-> FALSE, isAvailable |-> "undefined"]}
    \cup {[present |-> TRUE, isAvailable |-> b] : b \in JsBool}

PageIds == {1, 2}

\* item.schedule: absent, an object without keys, an object with keys
ItemSchedules == {"undefined", "empty", "set"}

PageItems == [id : PageIds, category : {"pizza"}, price : {5}, available : JsBool,
              scheduleAvailability : ScheduleInfos, schedule : ItemSchedules]

SeqsUpTo(S, n) == UNION {[1..k -> S] : k \in 0..n}

\* ------------------------------------------------------- the admin page
\* state.menuItems: two items; the name each one carries
AdminIds == {1, 2}
itemName(id) == IF id = 1 THEN "pizza" ELSE "cola"

\* the item form: the hidden itemId field and the name field.  An empty
\* itemId is 0, as is a null state.editingItemId.
BlankForm == [itemId |-> 0, name |-> ""]
NoInitial == [present |-> FALSE, name |-> "", editingItemId |-> 0]

\* the ways of closing the item modal
Ways == {"close button", "cancel button", "Escape", "click outside"}

\* what is noted of a close and of a submit (observations only)
NoClose == [seen |-> FALSE, way |-> "", dirty |-> FALSE, form |-> BlankForm,
            editingItemId |-> 0, outcome |-> ""]
NoSubmit == [seen |-> FALSE, editingItemId |-> 0, itemId |-> 0]

\* a suspended async call: editItem(id) waits for the settings, then for the
\* menu items; showItemModal() waits for the settings; a close waits for the
\* answer to the confirmation; a submit waits for the response, then for
\* the refreshes
Call(fn, id, pc) == [fn |-> fn, id |-> id, pc |-> pc, noted |-> NoClose]

NoAdmin == [editingItemId |-> 0, form |-> BlankForm, initialFormState |-> NoInitial,
            shown |-> FALSE, calls |-> <<>>, close |-> NoClose, submit |-> NoSubmit]

Without(seq, i) == SubSeq(seq, 1, i - 1) \o SubSeq(seq, i + 1, Len(seq))

\* storeInitialFormState()
storeInitialFormState(a) ==
  [a EXCEPT !.initialFormState = [present |-> TRUE, name |-> a.form.name,
                                  editingItemId |-> a.editingItemId]]

\* hasFormChanges()
hasFormChanges(a) ==
  IF ~a.initialFormState.present THEN FALSE
  ELSE \/ a.form.name # a.initialFormState.name
       \/ a.editingItemId # a.initialFormState.editingItemId

\* resetForm()
resetForm(a) == [a EXCEPT !.editingItemId = 0, !.form = BlankForm]

\* hideItemModal()
hideItemModal(a) == [a EXCEPT !.shown = FALSE, !.initialFormState = NoInitial]

\* showItemModal() up to its await
showItemModal(a) == [a EXCEPT !.calls = Append(@, Call("showItemModal", 0, "settings"))]

\* the listeners of a click on the cancel button, in the order in which
\* initItemForm and initNavigation registered them: resetForm, then the
\* close with confirmation
cancelBtnFirst(a) == resetForm(a)

\* closeItemModalWithConfirmation() up to the await of attemptCloseItemModal:
\* with changes the confirmation is shown and the call suspends, without
\* changes the form is reset and the modal hidden
closeItemModalWithConfirmation(a, noted) ==
  IF hasFormChanges(a)
  THEN [a EXCEPT !.calls = Append(@, [Call("close", 0, "confirm") EXCEPT !.noted = noted]),
                 !.close = [noted EXCEPT !.outcome = "asking"]]
  ELSE [hideItemModal(resetForm(a)) EXCEPT !.close = [noted EXCEPT !.outcome = "closed"]]

\* the hash of generateDataHash: a 32-bit integer, kept as its two 16-bit
\* halves; NoHash is the null of a page that has loaded nothing
Hash(hi, lo) == [hi |-> hi, lo |-> lo]
NoHash == Hash(-1, -1)

\* hash = ((hash << 5) - hash) + char; hash = hash & hash
hashStep(hash, char) ==
  LET lo == hash.lo * 31 + char
  IN Hash((hash.hi * 31 + lo \div 65536) % 65536, lo % 65536)

\* the loop over the characters; each step is computed before the next
RECURSIVE hashLoop(_, _, _)
hashLoop(jsonString, i, hash) ==
  IF i > Len(jsonString) THEN hash
  ELSE LET next == hashStep(hash, jsonString[i])
       IN IF next.lo >= 0 THEN hashLoop(jsonString, i + 1, next) ELSE NoHash

\* generateDataHash(data), from the characters of JSON.stringify(data)
generateDataHash(jsonString) == hashLoop(jsonString, 1, Hash(0, 0))

\* the characters (char codes) JSON.stringify writes for a value of the model
boolChars(b) == CASE b = "true" -> <<116>> [] b = "false" -> <<102>> [] OTHER -> <<>>
categoryChars(category) == IF category = "pizza" THEN <<112>> ELSE <<68>>
scheduleChars(schedule) ==
  CASE schedule = "set" -> <<123, 100, 125>> [] schedule = "empty" -> <<123, 125>> [] OTHER -> <<>>
itemChars(item) ==
  <<123, 48 + item.id, 44>> \o categoryChars(item.category) \o <<44, 48 + item.price, 44>>
    \o boolChars(item.available) \o <<44>>
    \o (IF item.scheduleAvailability.present
        THEN <<123>> \o boolChars(item.scheduleAvailability.isAvailable) \o <<125>>
        ELSE <<>>)
    \o <<44>> \o scheduleChars(item.schedule) \o <<125>>

RECURSIVE itemsChars(_)
itemsChars(data) ==
  IF data = <<>> THEN <<>>
  ELSE itemChars(Head(data)) \o (IF Len(data) > 1 THEN <<44>> ELSE <<>>) \o itemsChars(Tail(data))

\* JSON.stringify(data) of a menu
jsonString(data) == <<91>> \o itemsChars(data) \o <<93>>

\* an update check: what its two loads returned so far
Checks == 1..MaxChecks
NoLoad == [st |-> "none", data |-> <<>>]
Pending == [st |-> "pending", data |-> <<>>]
NoChange == [st |-> "null", data |-> <<>>]
Loaded(data) == [st |-> "data", data |-> data]
NoCheck == [pc |-> "idle", menu |-> NoLoad, settings |-> "none"]

\* what is noted of a step of an update check (observations only): the
\* step, whether the menu load and the settings load of the check found no
\* change, and the state before the step
NoCheckObs == [seen |-> FALSE, step |-> "", menuSame |-> FALSE, settingsSame |-> FALSE,
               items |-> <<>>, grid |-> <<>>, currentCategory |-> "", currentSort |-> ""]

NoPage == [items |-> <<>>, grid |-> <<>>, loaded |-> FALSE, rendered |-> FALSE,
           lastMenuDataHash |-> NoHash, lastSettingsHash |-> NoHash,
           currentCategory |-> "all", currentSort |-> "default",
           checks |-> [c \in Checks |-> NoCheck], obs |-> NoCheckObs]

\* sorted.sort((a, b) => idA - idB): a stable sort by id
RECURSIVE insertById(_, _)
insertById(sorted, it) ==
  IF sorted = <<>> THEN <<it>>
  ELSE IF Head(sorted).id <= it.id
       THEN <<Head(sorted)>> \o insertById(Tail(sorted), it)
       ELSE <<it>> \o sorted

\* the stable insertion of "price-desc"
RECURSIVE insertByPriceDesc(_, _)
insertByPriceDesc(sorted, it) ==
  IF sorted = <<>> THEN <<it>>
  ELSE IF Head(sorted).price >= it.price
       THEN <<Head(sorted)>> \o insertByPriceDesc(Tail(sorted), it)
       ELSE <<it>> \o sorted

\* sortMenuItems(items, sortType): "price-desc", and by id for "default"
RECURSIVE sortMenuItems(_, _)
sortMenuItems(items, sortType) ==
  IF items = <<>> THEN <<>>
  ELSE LET front == sortMenuItems(SubSeq(items, 1, Len(items) - 1), sortType)
       IN IF sortType = "price-desc" THEN insertByPriceDesc(front, items[Len(items)])
          ELSE insertById(front, items[Len(items)])

\* const isAvailable = item.available !== false
isAvailable(item) == item.available # "false"

\* a missing schedule result taken for "not available"
isScheduledAvailableStrict(item) ==
  item.scheduleAvailability.present /\ item.scheduleAvailability.isAvailable = "true"

\* scheduleInfo = item.scheduleAvailability || {}; scheduleInfo.isAvailable !== false
isScheduledAvailable(item) ==
  LET scheduleInfo == IF item.scheduleAvailability.present
                      THEN item.scheduleAvailability
                      ELSE [present |-> TRUE, isAvailable |-> "undefined"]
  IN scheduleInfo.isAvailable # "false"

finalAvailableEither(item) == isAvailable(item) \/ isScheduledAvailable(item)

finalAvailable(item) == isAvailable(item) /\ isScheduledAvailable(item)

\* if (item.schedule && Object.keys(item.schedule).length > 0): the class of
\* the schedule badge, "none" without badge
scheduleBadge(item) ==
  IF item.schedule = "set"
  THEN (IF isScheduledAvailable(item) THEN "schedule-badge available"
                                      ELSE "schedule-badge unavailable")
  ELSE "none"

\* if (!isAvailable) ... else if (!isScheduledAvailable && !item.schedule)
unavailableBadge(item) ==
  \/ ~isAvailable(item)
  \/ ~isScheduledAvailable(item) /\ item.schedule = "undefined"

\* the card built for one item: its class, the class of its schedule badge
\* and whether it carries the "Unavailable" badge
menuItem(item) ==
  [id |-> item.id,
   className |-> IF finalAvailable(item) THEN "menu-item " ELSE "menu-item unavailable",
   scheduleBadge |-> scheduleBadge(item),
   unavailableBadge |-> unavailableBadge(item)]

renderMenu(items, currentSort) ==
  LET sortedItems == sortMenuItems(items, currentSort)
  IN [i \in 1..Len(sortedItems) |-> menuItem(sortedItems[i])]

\* item.category.toLowerCase()
toLowerCase(category) == IF category = "Drinks" THEN "drinks" ELSE category

\* the items of the current category: all of them for "all"
filterItems(items, currentCategory) ==
  IF currentCategory = "all" THEN items
  ELSE SelectSeq(items, LAMBDA item : toLowerCase(item.category) = toLowerCase(currentCategory))

\* a response of fetch: a failure, or a body
Failed == [ok |-> FALSE, body |-> <<>>]
Body200(body) == [ok |-> TRUE, body |-> body]

\* a check load that empties the menu when the fetch fails
loadMenuDataClears(pg, c, response) ==
  IF ~response.ok THEN [pg EXCEPT !.checks[c].menu = NoChange, !.items = <<>>]
  ELSE LET newHash == generateDataHash(jsonString(response.body))
       IN IF newHash = pg.lastMenuDataHash THEN [pg EXCEPT !.checks[c].menu = NoChange]
          ELSE [pg EXCEPT !.lastMenuDataHash = newHash, !.items = response.body,
                          !.checks[c].menu = Loaded(response.body)]

\* loadMenuData(true) once the fetch has settled: null when it failed or the
\* hash of the data is the stored one; else the hash and the data are stored
loadMenuData(pg, c, response) ==
  IF ~response.ok THEN [pg EXCEPT !.checks[c].menu = NoChange]
  ELSE LET newHash == generateDataHash(jsonString(response.body))
       IN IF newHash = pg.lastMenuDataHash THEN [pg EXCEPT !.checks[c].menu = NoChange]
          ELSE [pg EXCEPT !.lastMenuDataHash = newHash, !.items = response.body,
                          !.checks[c].menu = Loaded(response.body)]

\* loadAndApplySettings(true) once the fetch has settled; the body is the
\* characters of the settings object
loadAndApplySettings(pg, c, response) ==
  IF ~response.ok THEN [pg EXCEPT !.checks[c].settings = "null"]
  ELSE LET newHash == generateDataHash(response.body)
       IN IF newHash = pg.lastSettingsHash THEN [pg EXCEPT !.checks[c].settings = "null"]
          ELSE [pg EXCEPT !.lastSettingsHash = newHash, !.checks[c].settings = "changed"]

\* checkForUpdates() after its Promise.all
checkForUpdates(pg, c) ==
  LET menuData == pg.checks[c].menu
      settings == pg.checks[c].settings
      pg1 == IF menuData.st # "null" THEN [pg EXCEPT !.items = menuData.data] ELSE pg
      needsRefresh == menuData.st # "null" \/ settings # "null"
      filteredItems == filterItems(pg1.items, pg1.currentCategory)
      sortedItems == sortMenuItems(filteredItems, pg1.currentSort)
      pg2 == IF needsRefresh
             THEN [pg1 EXCEPT !.grid = renderMenu(sortedItems, pg1.currentSort)]
             ELSE pg1
  IN [pg2 EXCEPT !.checks[c] = NoCheck]

\* -------------------------------------------------- the schedule evaluator
\* An instant is a calendar day and a time of day; a week has 7 days.
WeekLen == 7
NoDate  == -1                   \* an open end of a dateRange; no instant
Instants == [day : 0..MaxDay, tod : 0..MaxTod]
NoInstant == [day |-> NoDate, tod |-> NoDate]

weekday(day) == day % WeekLen

\* schedule.days, schedule.timeRange, schedule.dateRange: each may be absent
DaysChoices == {[has |-> FALSE, set |-> {}]}
                 \cup {[has |-> TRUE, set |-> S] : S \in SUBSET {0, 1, 2}}
TimeRanges == {[has |-> FALSE, start |-> 0, end |-> 0]}
                 \cup {[has |-> TRUE, start |-> a, end |-> b] : a, b \in 0..MaxTod}
DateRanges == {[has |-> FALSE, start |-> NoDate, end |-> NoDate]}
                 \cup {[has |-> TRUE, start |-> a, end |-> b] :
                         a, b \in {NoDate} \cup 0..MaxDay}
Schedules == [days : DaysChoices, timeRange : TimeRanges, dateRange : DateRanges]

NoSchedule == [days |-> [has |-> FALSE, set |-> {}],
               timeRange |-> [has |-> FALSE, start |-> 0, end |-> 0],
               dateRange |-> [has |-> FALSE, start |-> NoDate, end |-> NoDate]]

NoInfo == [isAvailable |-> TRUE, reason |-> "none", nextAvailable |-> NoInstant]

NoService == [schedule |-> NoSchedule, at |-> [day |-> 0, tod |-> 0],
              configured |-> FALSE, evaluated |-> FALSE, info |-> NoInfo]

daysConstrained(schedule) == schedule.days.has /\ schedule.days.set # {}

dayPasses(schedule, at) ==
  daysConstrained(schedule) => weekday(at.day) \in schedule.days.set

dateTooEarly(schedule, at) ==
  schedule.dateRange.has /\ schedule.dateRange.start # NoDate
    /\ at.day < schedule.dateRange.start

dateExpiredOffByOne(schedule, at) ==
  schedule.dateRange.has /\ schedule.dateRange.end # NoDate
    /\ at.day > schedule.dateRange.end + 1

dateExpired(schedule, at) ==
  schedule.dateRange.has /\ schedule.dateRange.end # NoDate
    /\ at.day > schedule.dateRange.end

timePassesExclusive(schedule, at) ==
  schedule.timeRange.has =>
    (schedule.timeRange.start < at.tod /\ at.tod < schedule.timeRange.end)

timePasses(schedule, at) ==
  schedule.timeRange.has =>
    (schedule.timeRange.start <= at.tod /\ at.tod <= schedule.timeRange.end)

\* the time of day at which a day's window opens (midnight without timeRange)
startOfDay(schedule) == IF schedule.timeRange.has THEN schedule.timeRange.start ELSE 0

\* the first day from `from` on whose weekday the schedule allows
nextMatchingDay(schedule, from) ==
  IF daysConstrained(schedule)
  THEN Min({d \in from..(from + WeekLen - 1) : weekday(d) \in schedule.days.set})
  ELSE from

dayCheck(schedule, at) ==
  [isAvailable |-> FALSE, reason |-> "not available today",
   nextAvailable |-> [day |-> nextMatchingDay(schedule, at.day + 1),
                      tod |-> startOfDay(schedule)]]

dateCheck(schedule, at) ==
  IF dateExpired(schedule, at)
  THEN [isAvailable |-> FALSE, reason |-> "expired", nextAvailable |-> NoInstant]
  ELSE [isAvailable |-> FALSE, reason |-> "not yet available",
        nextAvailable |-> [day |-> nextMatchingDay(schedule, schedule.dateRange.start),
                           tod |-> startOfDay(schedule)]]

timeCheck(schedule, at) ==
  [isAvailable |-> FALSE, reason |-> "outside hours",
   nextAvailable |->
     IF at.tod < schedule.timeRange.start
     THEN [day |-> at.day, tod |-> schedule.timeRange.start]
     ELSE [day |-> nextMatchingDay(schedule, at.day + 1),
           tod |-> schedule.timeRange.start]]

evaluateDateFirst(schedule, at) ==
  IF dateTooEarly(schedule, at) \/ dateExpired(schedule, at) THEN dateCheck(schedule, at)
  ELSE IF ~dayPasses(schedule, at) THEN dayCheck(schedule, at)
  ELSE IF ~timePasses(schedule, at) THEN timeCheck(schedule, at)
  ELSE [isAvailable |-> TRUE, reason |-> "none", nextAvailable |-> NoInstant]

\* evaluate(schedule, now): the checks in the order day, dateRange, timeRange
evaluate(schedule, at) ==
  IF ~dayPasses(schedule, at) THEN dayCheck(schedule, at)
  ELSE IF dateTooEarly(schedule, at) \/ dateExpired(schedule, at) THEN dateCheck(schedule, at)
  ELSE IF ~timePasses(schedule, at) THEN timeCheck(schedule, at)
  ELSE [isAvailable |-> TRUE, reason |-> "none", nextAvailable |-> NoInstant]

\* what an unusable data.json holds: text that does not parse, or JSON that
\* is not an array
UnusableFiles == {Partial(JObj(NoKnobs)), Text(JObj(NoKnobs))}

\* hist.watch names the history that is recorded in a behaviour:
\*   "ids"   - the ids that creates assigned (maxAssigned, lastAssigned)
\*   "reads" - the last successful write and the read call that follows it
\*   "fallback" - what a read call returned when the file was unusable
\*   "heals" - what a read call returned when the file was missing
\*   "frame" - the data file and the cache as they were when the request arrived
\*   "settings" - the last successful settings write and the readSettings call
\*               that follows it
\*   "throws" - the attempt of a write call at which writeFile or rename threw
\*   "login" - per address, the wrong passwords sent since the last login or
\*             lockout (failed) and when the fifth of them was sent (lockedAt)
InitWatching(w) ==
  /\ \E c \in InitFiles : fs = [p \in Paths |-> IF p = DATA_FILE THEN c ELSE Missing]
  /\ hist = [watch |-> w, maxAssigned |-> 0, lastAssigned |-> 0,
             lastWrite |-> <<>>, awaiting |-> FALSE,
             last |-> NoLast, lastW |-> NoLastW, readObs |-> NoObs,
             fallback |-> NoFallback, before |-> NoBefore,
             lastSettings |-> NoVal, settingsObs |-> NoSettingsObs,
             login |-> NoLogin, assigned |-> NoAssigned,
             failed |-> [ip \in Ips |-> 0],
             lockedAt |-> [ip \in Ips |-> 0]]
  /\ cache = [menuData |-> Null, menuDataTimestamp |-> 0, maxId |-> NoMaxId, maxIdTimestamp |-> 0,
              settings |-> NoVal, settingsTimestamp |-> 0]
  /\ fileLocks = [ft \in Colls |-> FALSE]
  /\ heap = [a \in ArrIds |-> <<>>]
  /\ now = T0
  /\ req = [p \in Procs |-> ReqIdle]
  /\ page = NoPage
  /\ service = NoService
  /\ sessions = [store |-> [sid \in Sids |-> NoSession], issued |-> 0]
  /\ loginAttempts = [ip \in Ips |-> NoAttempts]
  /\ timers = {}
  /\ admin = NoAdmin

Init == InitWatching("none")

\* ------------------------------------------------- the state as a value
St == [fs |-> fs, cache |-> cache, fileLocks |-> fileLocks, heap |-> heap,
       req |-> req, sessions |-> sessions, loginAttempts |-> loginAttempts,
       timers |-> timers,
       hist |-> [hist EXCEPT !.last = NoLast, !.lastW = NoLastW, !.readObs = NoObs,
                          !.fallback = NoFallback, !.settingsObs = NoSettingsObs,
                          !.login = NoLogin, !.assigned = NoAssigned]]

\* arrays still referenced by the cache or by a suspended write call
Live(s) == {s.cache.menuData} \cup {s.req[q].data.ref : q \in Procs}

Alloc(s) == Min(ArrIds \ Live(s))

\* A step ends: the variables take the values computed, unreferenced arrays
\* are collected.
Commit(s) ==
  /\ fs' = s.fs
  /\ cache' = s.cache
  /\ fileLocks' = s.fileLocks
  /\ heap' = [a \in ArrIds |-> IF a \in Live(s) THEN s.heap[a] ELSE <<>>]
  /\ req' = s.req
  /\ hist' = s.hist
  /\ now' = now
  /\ page' = page
  /\ service' = service
  /\ sessions' = s.sessions
  /\ loginAttempts' = s.loginAttempts
  /\ timers' = s.timers
  /\ admin' = admin

\* ------------------------------------------------------- writeMenuData /
\* writeSettings: one round of the retry loop, from acquireLock up to the
\* first real suspension (the retry timer, writeFile, or unlink after a throw)
TryAcquire(s, p) ==
  LET r  == s.req[p]
      ft == r.coll
  IN IF ~acquireLock(s.fileLocks, ft)
     THEN [s EXCEPT !.req[p].pc = "w_wait"]
     ELSE LET s1 == [s EXCEPT !.fileLocks[ft] = TRUE, !.req[p].acq = TRUE]
          IN IF ~validArg(ft, r.data)
             THEN [s1 EXCEPT !.req[p].pc = "w_unlink"]
             ELSE [s1 EXCEPT !.req[p].pc = "w_write",
                             !.req[p].payload = stringify(s1.heap, r.data)]

\* the call writeMenuData(data) / writeSettings(data): attempt = 0
EnterWrite(s, p, ft, data, caller) ==
  TryAcquire([s EXCEPT !.req[p].coll = ft, !.req[p].data = data,
                       !.req[p].caller = caller, !.req[p].attempt = 0,
                       !.req[p].payload = NoVal, !.req[p].acq = FALSE,
                       !.req[p].touched = FALSE, !.req[p].renamed = FALSE], p)

\* the handler sends its response; the slot is free for the next request
Respond(s, p, res, item, src) ==
  [s EXCEPT !.req[p] = ReqIdle,
            !.hist.last = [op |-> s.req[p].op, res |-> res, item |-> item, src |-> src,
                           image |-> s.req[p].image, settings |-> NoVal]]

\* GET /api/settings sends what readSettings returned: res.json(settings)
RespondSettings(s, p, settings, src) ==
  LET r  == s.req[p]
      s1 == IF r.isNext
            THEN [s EXCEPT !.hist.settingsObs = [seen |-> TRUE, got |-> settings,
                                                 want |-> s.hist.lastSettings]]
            ELSE s
  IN [s1 EXCEPT !.req[p] = ReqIdle,
                !.hist.last = [op |-> r.op, res |-> "ok", item |-> NoItem, src |-> src,
                               image |-> r.image, settings |-> settings]]

\* the handler's code after `await readMenuData()` returned the array ref
\* (src: the branch of readMenuData that produced it)
AfterRead(s, p, ref, src) ==
  LET r   == s.req[p]
      arr == s.heap[ref]
      sa  == IF r.isNext
             THEN [s EXCEPT !.hist.readObs = [seen |-> TRUE, got |-> arr,
                                              want |-> s.hist.lastWrite],
                            !.req[p].isNext = FALSE]
             ELSE s
      s0  == IF \/ s.hist.watch = "fallback" /\ src \in {"parsefail", "nonarray"}
                \/ s.hist.watch = "heals" /\ src = "enoent"
             THEN [sa EXCEPT !.hist.fallback =
                      [src |-> src, got |-> arr,
                       hadCache |-> s.cache.menuData # Null,
                       cached |-> IF s.cache.menuData = Null THEN <<>>
                                  ELSE s.heap[s.cache.menuData]]]
             ELSE sa
      ids == s0.hist.watch = "ids"
  IN CASE r.op = "get" -> Respond(s0, p, "ok", NoItem, src)
       [] r.op = "create" ->
            LET stale == maxIdStale(s0.cache, now)
                maxId == IF stale THEN getMaxId(arr) ELSE s0.cache.maxId
                newId == maxId + 1
                s1 == [s0 EXCEPT !.cache.maxId = maxId,
                                 !.cache.maxIdTimestamp = IF stale THEN now ELSE @,
                                 !.heap[ref] = Append(arr, [id |-> newId, name |-> r.name,
                                                            image |-> newImage(r.image)]),
                                 !.req[p].id = newId,
                                 !.hist.assigned = [seen |-> TRUE, newId |-> newId,
                                                    highest |-> getMaxId(arr),
                                                    cached |-> ~stale],
                                 !.hist.maxAssigned =
                                    IF ids THEN Max2(@, s0.hist.lastAssigned) ELSE @,
                                 !.hist.lastAssigned = IF ids THEN newId ELSE @]
            IN EnterWrite(s1, p, "menuData", DRef(ref), "handler")
       [] r.op = "update" ->
            LET idx == findIndex(arr, r.id)
            IN IF ~validateMenuItem(r.name)
               THEN Respond(s0, p, "invalid", [id |-> r.id, name |-> r.name], src)
               ELSE IF idx = 0
               THEN Respond(s0, p, "notfound", [id |-> r.id, name |-> r.name], src)
               ELSE EnterWrite([s0 EXCEPT !.heap[ref][idx] =
                                  [id |-> r.id, name |-> r.name,
                                   image |-> updatedImage(r.image, existingImage(arr, r.id))]],
                               p, "menuData", DRef(ref), "handler")
       [] r.op = "import" ->   \* merge: [...existingData, ...validItems]
            LET maxId == Max2(getMaxId(arr), getMaxId(r.items))
                finalData == assignIds(arr \o r.items, maxId)
                a == Alloc(s0)
            IN \* the items of existingData are shared with finalData
               EnterWrite([s0 EXCEPT !.heap[ref] = SubSeq(finalData, 1, Len(arr)),
                                     !.heap[a] = finalData],
                          p, "menuData", DRef(a), "handler")
       [] OTHER ->   \* delete
            LET filtered == filterOut(arr, r.id)
                a == Alloc(s0)
            IN IF Len(filtered) = Len(arr)
               THEN Respond(s0, p, "notfound", [id |-> r.id, name |-> r.name], src)
               ELSE EnterWrite([s0 EXCEPT !.heap[a] = filtered],
                               p, "menuData", DRef(a), "handler")

\* the write call returns `result` to whoever called it
ReturnFromWrite(s, p, result) ==
  LET r  == s.req[p]
      s1 == [s EXCEPT !.hist.lastW = [coll |-> r.coll, res |-> result, acq |-> r.acq,
                                      touched |-> r.touched, renamed |-> r.renamed,
                                      tries |-> r.attempt + 1, threwAt |-> r.threwAt],
                      !.req[p].data = NoData, !.req[p].payload = NoVal,
                      !.req[p].attempt = 0, !.req[p].acq = FALSE,
                      !.req[p].touched = FALSE, !.req[p].renamed = FALSE,
                      !.req[p].threwAt = 0, !.req[p].coll = "none",
                      !.req[p].caller = "none", !.req[p].pc = "idle"]
  IN IF r.caller = "selfheal"
     THEN \* readMenuData ignores the result and returns a new []
          LET a == Alloc(s1)
          IN AfterRead([s1 EXCEPT !.heap[a] = <<>>], p, a, "enoent")
     ELSE Respond(s1, p, IF result THEN "ok" ELSE "writefail",
                  [id |-> r.id, name |-> r.name], "none")

\* the call readMenuData(): the cache check, else fs.readFile is issued
readMenuDataCall(s, p) ==
  LET s1 == IF s.hist.watch = "reads"
            THEN [s EXCEPT !.req[p].isNext = s.hist.awaiting, !.hist.awaiting = FALSE]
            ELSE s
  IN IF cacheValid(s1.cache, now)
     THEN AfterRead(s1, p, s1.cache.menuData, "cache")
     ELSE [s1 EXCEPT !.req[p].pc = "r_read", !.req[p].rnow = now]

\* the call readSettings(): the cache check, then existsSync; fs.readFile is
\* issued when the file exists, the defaults are cached and returned otherwise
readSettingsCall(s, p) ==
  LET s1 == IF s.hist.watch = "settings"
            THEN [s EXCEPT !.req[p].isNext = s.hist.awaiting, !.hist.awaiting = FALSE]
            ELSE s
  IN IF settingsCacheValid(s1.cache, now)
     THEN RespondSettings(s1, p, s1.cache.settings, "cache")
     ELSE IF s1.fs[SETTINGS_FILE].kind # "missing"
     THEN [s1 EXCEPT !.req[p].pc = "rs_read", !.req[p].rnow = now]
     ELSE RespondSettings([s1 EXCEPT !.cache.settings = getDefaultSettings,
                                     !.cache.settingsTimestamp = now],
                          p, getDefaultSettings, "defaults")

\* a request arrives on a free slot (s: the state its middleware left)
ArriveOn(s, p, op, id, name) ==
  [s EXCEPT !.req[p].op = op, !.req[p].id = id, !.req[p].name = name,
             !.hist.before =
                IF hist.watch = "frame"
                THEN [file |-> fs[DATA_FILE], cache |-> cache,
                      items |-> IF cache.menuData = Null THEN <<>> ELSE heap[cache.menuData]]
                ELSE @]

Arrive(p, op, id, name) == ArriveOn(St, p, op, id, name)

\* the longest array in the system and the highest id persisted (they bound
\* the creates)
LongestArray ==
  LET S == {Len(heap[a]) : a \in ArrIds} \cup {Len(fs[f].val.items) : f \in Paths}
  IN CHOOSE x \in S : \A y \in S : y <= x

HighestId == Max2(getMaxId(fs[DATA_FILE].val.items), cache.maxId)

\* ---------------------------------------------------------------- actions
\* ------------------------------------------------- the route handlers
\* each from the state s that the middleware of its route left
postMenu(s, p, name, image) ==
  LET s1 == [ArriveOn(s, p, "create", 0, name) EXCEPT !.req[p].image = image]
  IN IF validateMenuItem(name)
     THEN readMenuDataCall(s1, p)
     ELSE Respond(s1, p, "invalid", [id |-> 0, name |-> name], "none")

putMenu(s, p, id, name, image) ==
  readMenuDataCall([ArriveOn(s, p, "update", id, name) EXCEPT !.req[p].image = image], p)

deleteMenu(s, p, id) == readMenuDataCall(ArriveOn(s, p, "delete", id, ""), p)

putSettings(s, p, v, fc) ==
  EnterWrite([ArriveOn(s, p, "putSettings", 0, "") EXCEPT !.req[p].body = v],
             p, "settings",
             DSettings(validSettings(v), validFilterCategories(fc)), "handler")

\* POST /api/menu/import: 400 for data that is no array or holds no valid
\* item; replace mode writes validItems, merge mode reads first
importMenu(s, p, body) ==
  LET s1 == ArriveOn(s, p, "import", 0, "")
      valid == validItems(body.data)
      a == Alloc(s1)
  IN IF ~body.isArray \/ valid = <<>>
     THEN Respond(s1, p, "invalid", NoItem, "none")
     ELSE IF body.replace
     THEN EnterWrite([s1 EXCEPT !.heap[a] = assignIds(valid, getMaxId(valid))],
                     p, "menuData", DRef(a), "handler")
     ELSE readMenuDataCall([s1 EXCEPT !.req[p].items = valid], p)

\* requireAuth, then csrfProtection of a POST, PUT or DELETE: the state they
\* leave (a session without a token gets one) and where the request goes
protect(s, sid, token) ==
  LET session == s.sessions.store[sid]
      s1 == IF session.csrfToken = NoToken
            THEN [s EXCEPT !.sessions.store[sid].csrfToken =
                              generateCSRFToken(s.sessions.issued),
                           !.sessions.issued = @ + 1]
            ELSE s
      valid == validateCSRFToken(token, s1.sessions.store[sid])
  IN IF ~requireAuth(session) THEN [s |-> s, out |-> "unauthorized"]
     ELSE [s |-> s1, out |-> IF valid = "true" THEN "next"
                             ELSE IF valid = "false" THEN "forbidden" ELSE "error"]

\* a request to a protected route: on session sid, carrying `token` (one of
\* the tokens issued so far, or none, or a string of another length)
Protected(p, sid, token, op, handle(_)) ==
  /\ req[p].op = "idle"
  /\ token \in {Absent, Malformed} \cup 1..sessions.issued
  /\ sessions.store[sid].csrfToken = NoToken => sessions.issued < MaxTokens
  /\ LET s0 == [St EXCEPT !.req[p].session = sessions.store[sid],
                          !.req[p].token = token]
         g  == protect(s0, sid, token)
     IN Commit(IF g.out = "next" THEN handle(g.s)
               ELSE Respond(ArriveOn(g.s, p, op, 0, ""), p, g.out, NoItem, "none"))

ProtectedPost(p, sid, token, name, image) ==
  /\ HighestId < MaxId
  /\ LongestArray < MaxLen
  /\ Protected(p, sid, token, "create", LAMBDA s : postMenu(s, p, name, image))

ProtectedPut(p, sid, token, id, name, image) ==
  Protected(p, sid, token, "update", LAMBDA s : putMenu(s, p, id, name, image))

ProtectedDelete(p, sid, token, id) ==
  Protected(p, sid, token, "delete", LAMBDA s : deleteMenu(s, p, id))

ProtectedPutSettings(p, sid, token, v, fc) ==
  Protected(p, sid, token, "putSettings", LAMBDA s : putSettings(s, p, v, fc))

ProtectedImport(p, sid, token, body) ==
  /\ HighestId < MaxId
  /\ LongestArray + Len(body.data) <= MaxLen
  /\ Protected(p, sid, token, "import", LAMBDA s : importMenu(s, p, body))

\* GET /api/auth/status: a session without a token gets one
AuthStatus(sid) ==
  /\ sessions.store[sid].csrfToken = NoToken
  /\ sessions.issued < MaxTokens
  /\ Commit([St EXCEPT !.sessions.store[sid].csrfToken = generateCSRFToken(sessions.issued),
                       !.sessions.issued = @ + 1])

\* history of a login request, told from what was sent and when: a wrong
\* password sent outside a lockout is a failed attempt, the fifth one starts
\* a lockout, the right password sent outside a lockout ends the count
Watched(s, sid, ip, password, res) ==
  LET lockedAt == s.hist.lockedAt[ip]
      locked == lockedAt # 0 /\ now < lockedAt + LOGIN_LOCKOUT_TIME
      wrong  == password \in {"short", "wrong"}
      fifth  == s.hist.failed[ip] + 1 = MAX_LOGIN_ATTEMPTS
  IN [s EXCEPT !.hist.login = [seen |-> TRUE, sid |-> sid, ip |-> ip, password |-> password,
                               res |-> res,
                               wasAuthenticated |-> s.sessions.store[sid].isAuthenticated,
                               lockedAt |-> lockedAt],
               !.hist.failed[ip] = IF locked THEN @
                                   ELSE IF wrong THEN (IF fifth THEN 0 ELSE @ + 1)
                                   ELSE IF password = ADMIN_PASSWORD THEN 0 ELSE @,
               !.hist.lockedAt[ip] = IF locked THEN @
                                     ELSE IF wrong THEN (IF fifth THEN now ELSE 0)
                                     ELSE IF password = ADMIN_PASSWORD THEN 0 ELSE @]

\* POST /api/auth/login from address ip on session sid: rateLimitLogin, then
\* the password check
Login(sid, ip, password) ==
  LET attempts == rateLimitLogin(loginAttempts[ip], now)
      res == IF lockedOut(loginAttempts[ip], now) THEN "429" ELSE checkPassword(password)
      s0  == [St EXCEPT !.hist.last = [NoLast EXCEPT !.op = "login", !.res = res]]
      s1  == IF hist.watch = "login" THEN Watched(s0, sid, ip, password, res) ELSE s0
  IN Commit(
       CASE res = "429" -> s1
         [] res = "400" -> [s1 EXCEPT !.loginAttempts[ip] = attempts]
         [] res = "401" -> [s1 EXCEPT !.loginAttempts[ip] = recordFailedLogin(attempts, now),
                                      !.timers = @ \cup {cleanupTimer(ip, now)}]
         [] OTHER -> [s1 EXCEPT !.loginAttempts[ip] = NoAttempts,
                                !.sessions.store[sid].isAuthenticated = TRUE])

\* POST /api/auth/logout: req.session.destroy()
Logout(sid) ==
  /\ sessions.store[sid] # NoSession
  /\ Commit([St EXCEPT !.sessions.store[sid] = NoSession])

\* GET /data.json
StartGet(p) ==
  /\ req[p].op = "idle"
  /\ Commit(readMenuDataCall(Arrive(p, "get", 0, ""), p))

\* POST /api/menu
PostMenu(p, name, image) ==
  /\ req[p].op = "idle"
  /\ HighestId < MaxId
  /\ LongestArray < MaxLen
  /\ Commit(postMenu(St, p, name, image))

\* POST /api/menu without an image
StartCreate(p, name) == PostMenu(p, name, Undefined)

\* POST /api/menu/import
StartImport(p, body) ==
  /\ req[p].op = "idle"
  /\ LongestArray < MaxLen
  /\ Commit(importMenu(St, p, body))

\* PUT /api/menu/:id
PutMenu(p, id, name, image) ==
  /\ req[p].op = "idle"
  /\ Commit(putMenu(St, p, id, name, image))

\* PUT /api/menu/:id without an image
StartUpdate(p, id, name) == PutMenu(p, id, name, Undefined)

\* DELETE /api/menu/:id
StartDelete(p, id) ==
  /\ req[p].op = "idle"
  /\ Commit(deleteMenu(St, p, id))

\* PUT /api/settings with a body whose colours and sizes are v and whose
\* filterCategories are fc: writeSettings(validSettings)
PutSettings(p, v, fc) ==
  /\ req[p].op = "idle"
  /\ Commit(putSettings(St, p, v, fc))

\* PUT /api/settings with a body without filterCategories
StartPutSettings(p, v) == PutSettings(p, v, NoCats)

\* GET /api/settings
GetSettings(p) ==
  /\ req[p].op = "idle"
  /\ Commit(readSettingsCall(Arrive(p, "getSettings", 0, ""), p))

\* the operating system performs the read of settings.json
ReadSettingsIO(p) ==
  /\ req[p].pc = "rs_read"
  /\ Commit([St EXCEPT !.req[p].buf = fs[SETTINGS_FILE], !.req[p].pc = "rs_resume"])

\* readSettings resumes after `await fs.readFile`: JSON.parse, the default
\* filter categories if the object has none, the cache; the catch block
\* returns the cached settings or the defaults
ReadSettingsResume(p) ==
  /\ req[p].pc = "rs_resume"
  /\ LET r  == req[p]
         s0 == [St EXCEPT !.req[p].buf = Missing, !.req[p].rnow = 0, !.req[p].pc = "idle"]
         settings == withFilterCategories(r.buf.val)
     IN Commit(
          IF ~parseOk(r.buf)
          THEN RespondSettings(s0, p, IF s0.cache.settings # NoVal THEN s0.cache.settings
                                      ELSE getDefaultSettings, "catch")
          ELSE RespondSettings([s0 EXCEPT !.cache.settings = settings,
                                          !.cache.settingsTimestamp = r.rnow],
                               p, settings, "file"))

\* a write call whose argument is not an array / not an object
StartWriteInvalid(p, ft) ==
  /\ req[p].op = "idle"
  /\ Commit(EnterWrite(Arrive(p, "direct", 0, ""), p, ft, DBad, "direct"))

\* the operating system performs the read of data.json
ReadIO(p) ==
  /\ req[p].pc = "r_read"
  /\ Commit([St EXCEPT !.req[p].buf = fs[DATA_FILE], !.req[p].pc = "r_resume"])

\* readMenuData resumes after `await fs.readFile`
ReadResume(p) ==
  /\ req[p].pc = "r_resume"
  /\ LET r  == req[p]
         s0 == [St EXCEPT !.req[p].buf = Missing, !.req[p].rnow = 0, !.req[p].pc = "idle"]
         a  == Alloc(s0)
     IN Commit(
          CASE isENOENT(r.buf) ->
                 EnterWrite([s0 EXCEPT !.heap[a] = <<>>], p, "menuData", DRef(a), "selfheal")
            [] ~parseOk(r.buf) ->
                 IF s0.cache.menuData # Null
                 THEN AfterRead(s0, p, s0.cache.menuData, "parsefail")
                 ELSE AfterRead([s0 EXCEPT !.heap[a] = <<>>], p, a, "parsefail")
            [] r.buf.val.k # "arr" ->
                 AfterRead([s0 EXCEPT !.heap[a] = <<>>], p, a, "nonarray")
            [] OTHER ->
                 AfterRead([s0 EXCEPT !.heap[a] = r.buf.val.items,
                                      !.cache.menuData = a,
                                      !.cache.menuDataTimestamp = r.rnow,
                                      !.cache.maxId = getMaxId(r.buf.val.items),
                                      !.cache.maxIdTimestamp = r.rnow], p, a, "file"))

\* fs.writeFile(tempFile, ...) ends; on success fs.rename is issued, on a
\* throw the catch block issues fs.unlink
WriteFileDone(p, outcome) ==
  /\ req[p].pc = "w_write"
  /\ LET r == req[p]
     IN Commit([St EXCEPT !.fs = writeFile(fs, tempFile(r.coll), r.payload, outcome),
                          !.req[p].touched = TRUE,
                          !.req[p].threwAt = IF outcome # "ok" /\ hist.watch = "throws"
                                             THEN r.attempt + 1 ELSE @,
                          !.req[p].pc = IF outcome = "ok" THEN "w_rename" ELSE "w_unlink"])

\* fs.rename(tempFile, file) takes effect, or fails and the catch block
\* issues fs.unlink
RenameIO(p, ok) ==
  /\ req[p].pc = "w_rename"
  /\ LET r == req[p]
         t == tempFile(r.coll)
     IN IF ok
        THEN /\ fs[t].kind # "missing"
             /\ Commit([St EXCEPT !.fs = rename(fs, t, fileOf(r.coll)),
                                  !.req[p].touched = TRUE,
                                  !.req[p].renamed = (fs[t] = Text(r.payload)),
                                  !.req[p].pc = "w_renamed"])
        ELSE Commit([St EXCEPT !.req[p].pc = "w_unlink",
                               !.req[p].threwAt = IF hist.watch = "throws"
                                                  THEN r.attempt + 1 ELSE @])

\* the write call resumes after the rename: cache invalidation, release, return true
WriteCommit(p) ==
  /\ req[p].pc = "w_renamed"
  /\ LET r  == req[p]
         rd == hist.watch = "reads"
         ws == hist.watch = "settings"
         s1 == IF r.coll = "menuData"
               THEN [St EXCEPT !.cache.menuData = Null,
                               !.cache.menuDataTimestamp = 0,
                               !.cache.maxId = getMaxId(stringify(heap, r.data).items),
                               !.cache.maxIdTimestamp = now,
                               !.hist.lastWrite = IF rd THEN r.payload.items ELSE @,
                               !.hist.awaiting = rd,
                               !.req = [q \in Procs |-> [req[q] EXCEPT !.isNext = FALSE]]]
               ELSE [St EXCEPT !.cache.settings = NoVal,
                               !.cache.settingsTimestamp = 0,
                               !.hist.lastSettings = IF ws THEN r.payload ELSE @,
                               !.hist.awaiting = IF ws THEN TRUE ELSE @,
                               !.req = [q \in Procs |-> [req[q] EXCEPT !.isNext = FALSE]]]
         s2 == [s1 EXCEPT !.fileLocks = releaseLock(s1.fileLocks, r.coll)]
     IN Commit(ReturnFromWrite(s2, p, TRUE))

\* the catch block resumes after `await fs.unlink` (which removed the temp
\* file or failed silently): release, then wait for the next round or return false
UnlinkDone(p, ok) ==
  /\ req[p].pc = "w_unlink"
  /\ LET r  == req[p]
         t  == tempFile(r.coll)
         s1 == IF ok THEN [St EXCEPT !.fs = unlink(fs, t), !.req[p].touched = TRUE] ELSE St
         s2 == [s1 EXCEPT !.fileLocks = releaseLock(s1.fileLocks, r.coll)]
     IN /\ ok => fs[t].kind # "missing"
        /\ Commit(IF retryAfterError(r.attempt)
                  THEN [s2 EXCEPT !.req[p].pc = "w_wait"]
                  ELSE ReturnFromWrite(s2, p, failureResult))

\* the retry delay elapsed: attempt++, then the next round or return false
RetryTimer(p) ==
  /\ req[p].pc = "w_wait"
  /\ Commit(IF hasNextAttempt(req[p].attempt)
            THEN TryAcquire([St EXCEPT !.req[p].attempt = @ + 1], p)
            ELSE ReturnFromWrite(St, p, failureResult))

\* data.json is replaced from outside the server (a manual edit, a restore)
\* by a file that does not parse or that holds JSON other than an array
ExternalEdit(c) ==
  /\ fs[DATA_FILE] # c
  /\ Commit([St EXCEPT !.fs[DATA_FILE] = c])

\* time passes
Tick ==
  /\ now < T0 + MaxTicks * TickMs
  /\ now' = now + TickMs
  /\ hist' = [hist EXCEPT !.last = NoLast, !.lastW = NoLastW, !.readObs = NoObs,
                          !.fallback = NoFallback, !.settingsObs = NoSettingsObs,
                          !.login = NoLogin, !.assigned = NoAssigned]
  /\ UNCHANGED <<fs, cache, fileLocks, heap, req, page, service, sessions, loginAttempts, timers, admin>>

\* ------------------------------------------------------- page actions
\* the page received the items of /data.json (loadMenuData)
LoadMenu(items) ==
  /\ ~page.loaded
  /\ page' = [page EXCEPT !.items = items, !.loaded = TRUE,
                          !.lastMenuDataHash = generateDataHash(jsonString(items))]
  /\ UNCHANGED <<fs, cache, fileLocks, heap, now, req, hist, service, sessions, loginAttempts, timers, admin>>

\* renderMenu(state.menuData)
RenderMenu ==
  /\ page.loaded /\ ~page.rendered
  /\ page' = [page EXCEPT !.grid = renderMenu(page.items, page.currentSort),
                          !.rendered = TRUE]
  /\ UNCHANGED <<fs, cache, fileLocks, heap, now, req, hist, service, sessions, loginAttempts, timers, admin>>

\* ------------------------------------------------ auto-refresh actions
\* a step of the public page; what was noted of the step before is dropped
\* unless this step notes it again
PageStep(pg) ==
  /\ page' = pg
  /\ UNCHANGED <<fs, cache, fileLocks, heap, now, req, hist, service, sessions,
                 loginAttempts, timers, admin>>

Unnoted == [page EXCEPT !.obs = NoCheckObs]

\* the menus and the settings objects the server may answer with
Pizza == [id |-> 1, category |-> "pizza", price |-> 5, available |-> "true",
          scheduleAvailability |-> [present |-> FALSE, isAvailable |-> "undefined"],
          schedule |-> "undefined"]
Cola(price) == [Pizza EXCEPT !.id = 2, !.category = "Drinks", !.price = price]
MenuVersions == {<<>>, <<Pizza>>, <<Pizza, Cola(9)>>, <<Pizza, Cola(3)>>}
SettingsVersions == {<<123, 49, 125>>, <<123, 50, 125>>}

\* initialize(): settings and menu are loaded, their hashes stored, the
\* menu rendered and the auto-refresh started
Initialize(data, settings) ==
  /\ ~page.loaded
  /\ PageStep([Unnoted EXCEPT !.items = data, !.loaded = TRUE,
                              !.lastMenuDataHash = generateDataHash(jsonString(data)),
                              !.lastSettingsHash = generateDataHash(settings),
                              !.grid = renderMenu(data, page.currentSort),
                              !.rendered = TRUE])

\* the interval, a focus or a visibility change starts checkForUpdates():
\* both loads are issued
StartCheck(c) ==
  /\ page.rendered /\ page.checks[c].pc = "idle"
  /\ PageStep([Unnoted EXCEPT !.checks[c] = [pc |-> "waiting", menu |-> Pending,
                                              settings |-> "pending"]])

Before(step, menuSame, settingsSame) ==
  [seen |-> TRUE, step |-> step, menuSame |-> menuSame, settingsSame |-> settingsSame,
   items |-> page.items, grid |-> page.grid,
   currentCategory |-> page.currentCategory, currentSort |-> page.currentSort]

\* the fetch of data.json of check c settles
MenuResponse(c, response) ==
  /\ page.checks[c].pc = "waiting" /\ page.checks[c].menu = Pending
  /\ LET pg == loadMenuData(Unnoted, c, response)
     IN PageStep([pg EXCEPT !.obs = Before("menu", pg.checks[c].menu = NoChange, TRUE)])

\* the fetch of /api/settings of check c settles
SettingsResponse(c, response) ==
  /\ page.checks[c].pc = "waiting" /\ page.checks[c].settings = "pending"
  /\ PageStep(loadAndApplySettings(Unnoted, c, response))

\* both loads of check c have returned: checkForUpdates resumes
CheckResume(c) ==
  /\ page.checks[c].pc = "waiting"
  /\ page.checks[c].menu # Pending /\ page.checks[c].settings # "pending"
  /\ PageStep([checkForUpdates(Unnoted, c)
                EXCEPT !.obs = Before("resume", page.checks[c].menu = NoChange,
                                      page.checks[c].settings = "null")])

\* a click on a filter button
FilterClick(category) ==
  /\ page.rendered /\ page.currentCategory # category
  /\ PageStep([Unnoted EXCEPT !.currentCategory = category,
                              !.grid = renderMenu(filterItems(page.items, category),
                                                  page.currentSort)])

\* a click on a sort option
SortClick(sort) ==
  /\ page.rendered /\ page.currentSort # sort
  /\ PageStep([Unnoted EXCEPT !.currentSort = sort,
                              !.grid = renderMenu(filterItems(page.items, page.currentCategory),
                                                  sort)])

NextRefresh ==
  \/ \E data \in MenuVersions, settings \in SettingsVersions : Initialize(data, settings)
  \/ \E c \in Checks : StartCheck(c)
  \/ \E c \in Checks, data \in MenuVersions : MenuResponse(c, Body200(data))
  \/ \E c \in Checks : MenuResponse(c, Failed)
  \/ \E c \in Checks, settings \in SettingsVersions : SettingsResponse(c, Body200(settings))
  \/ \E c \in Checks : SettingsResponse(c, Failed)
  \/ \E c \in Checks : CheckResume(c)
  \/ \E category \in {"all", "pizza", "drinks"} : FilterClick(category)
  \/ \E sort \in {"default", "price-desc"} : SortClick(sort)

\* ---------------------------------------------------- service actions
\* an item with this schedule is stored; the service's clock reads `at`
Configure(schedule, at) ==
  /\ ~service.configured
  /\ service' = [service EXCEPT !.schedule = schedule, !.at = at, !.configured = TRUE]
  /\ UNCHANGED <<fs, cache, fileLocks, heap, now, req, hist, page, sessions, loginAttempts, timers, admin>>

\* listVisible(now) annotates the item with evaluate(item.schedule, now)
Evaluate ==
  /\ service.configured /\ ~service.evaluated
  /\ service' = [service EXCEPT !.info = evaluate(service.schedule, service.at),
                                 !.evaluated = TRUE]
  /\ UNCHANGED <<fs, cache, fileLocks, heap, now, req, hist, page, sessions, loginAttempts, timers, admin>>

\* time passes to a later instant; the annotation is out of date
Later(at) ==
  /\ service.configured /\ service.evaluated
  /\ at.day > service.at.day \/ (at.day = service.at.day /\ at.tod > service.at.tod)
  /\ service' = [service EXCEPT !.at = at, !.evaluated = FALSE, !.info = NoInfo]
  /\ UNCHANGED <<fs, cache, fileLocks, heap, now, req, hist, page, sessions, loginAttempts, timers, admin>>

\* ------------------------------------------------------ admin actions
\* a step of the admin page; what was noted of the step before is dropped
\* unless this step notes it again
AdminStep(a) ==
  /\ admin' = a
  /\ UNCHANGED <<fs, cache, fileLocks, heap, now, req, hist, page, service, sessions,
                 loginAttempts, timers>>

Fresh == [admin EXCEPT !.close = NoClose, !.submit = NoSubmit]

Asking == \E i \in 1..Len(admin.calls) : admin.calls[i].fn = "close"

\* a click on the Edit button of an item: editItem(id) up to its first await
EditClick(id) ==
  /\ ~admin.shown /\ Len(admin.calls) < MaxCalls
  /\ AdminStep([Fresh EXCEPT !.editingItemId = id,
                              !.calls = Append(@, Call("editItem", id, "settings"))])

\* editItem(id) resumes: after the settings it waits for the menu items,
\* after these it fills the form from the item it found at the start and
\* calls showItemModal()
EditResume(i) ==
  /\ i \in 1..Len(admin.calls) /\ admin.calls[i].fn = "editItem"
  /\ LET c == admin.calls[i]
     IN IF c.pc = "settings"
        THEN AdminStep([Fresh EXCEPT !.calls[i].pc = "menu"])
        ELSE AdminStep(showItemModal(
               [Fresh EXCEPT !.form = [itemId |-> c.id, name |-> itemName(c.id)],
                             !.calls = Without(@, i)]))

\* a click on "Add item": resetForm(); showItemModal()
AddItemClick ==
  /\ ~admin.shown /\ Len(admin.calls) < MaxCalls
  /\ AdminStep(showItemModal(resetForm(Fresh)))

\* showItemModal() resumes: the initial form state is stored, the modal shown
ShowResume(i) ==
  /\ i \in 1..Len(admin.calls) /\ admin.calls[i].fn = "showItemModal"
  /\ AdminStep([storeInitialFormState([Fresh EXCEPT !.calls = Without(@, i)])
                  EXCEPT !.shown = TRUE])

\* the user changes the name field
Type(name) ==
  /\ admin.shown /\ ~Asking /\ admin.form.name # name
  /\ AdminStep([Fresh EXCEPT !.form.name = name])

\* the user closes the item modal in one of the four ways
Close(way) ==
  /\ admin.shown /\ ~Asking /\ Len(admin.calls) < MaxCalls
  /\ LET noted == [seen |-> TRUE, way |-> way, dirty |-> hasFormChanges(admin),
                   form |-> admin.form, editingItemId |-> admin.editingItemId,
                   outcome |-> ""]
         a == IF way = "cancel button" THEN cancelBtnFirst(Fresh) ELSE Fresh
     IN AdminStep(closeItemModalWithConfirmation(a, noted))

\* the user answers the confirmation: closeItemModalWithConfirmation resumes
Confirm(i, confirmed) ==
  /\ i \in 1..Len(admin.calls) /\ admin.calls[i].fn = "close"
  /\ LET a == [Fresh EXCEPT !.calls = Without(@, i)]
         noted == admin.calls[i].noted
     IN IF confirmed
        THEN AdminStep([hideItemModal(resetForm(a))
                          EXCEPT !.close = [noted EXCEPT !.outcome = "discarded"]])
        ELSE AdminStep([a EXCEPT !.close = [noted EXCEPT !.outcome = "kept"]])

\* the form is submitted with a name: the request goes to /api/menu/<id> with
\* PUT when state.editingItemId is set, to /api/menu with POST otherwise
Submit ==
  /\ admin.shown /\ ~Asking /\ admin.form.name # "" /\ Len(admin.calls) < MaxCalls
  /\ AdminStep([Fresh EXCEPT !.calls = Append(@, Call("submit", admin.editingItemId, "response")),
                              !.submit = [seen |-> TRUE, editingItemId |-> admin.editingItemId,
                                          itemId |-> admin.form.itemId]])

\* the submit handler resumes: a failure leaves the modal as it is; after a
\* success the initial form state is cleared and, once the lists are
\* refreshed, the form is reset and the modal hidden
SubmitResume(i, ok) ==
  /\ i \in 1..Len(admin.calls) /\ admin.calls[i].fn = "submit"
  /\ LET c == admin.calls[i]
     IN IF c.pc = "response"
        THEN (IF ok THEN AdminStep([Fresh EXCEPT !.initialFormState = NoInitial,
                                               !.calls[i].pc = "refresh"])
                    ELSE AdminStep([Fresh EXCEPT !.calls = Without(@, i)]))
        ELSE ok /\ AdminStep(hideItemModal(resetForm([Fresh EXCEPT !.calls = Without(@, i)])))

NextAdmin ==
  \/ \E id \in AdminIds : EditClick(id)
  \/ \E i \in 1..MaxCalls : EditResume(i)
  \/ AddItemClick
  \/ \E i \in 1..MaxCalls : ShowResume(i)
  \/ Type("soup")
  \/ \E way \in Ways : Close(way)
  \/ \E i \in 1..MaxCalls, confirmed \in BOOLEAN : Confirm(i, confirmed)
  \/ Submit
  \/ \E i \in 1..MaxCalls, ok \in BOOLEAN : SubmitResume(i, ok)

NextService ==
  \/ ~service.configured /\ \E schedule \in Schedules, at \in Instants : Configure(schedule, at)
  \/ Evaluate
  \/ \E at \in Instants : Later(at)

NextPage ==
  \/ ~page.loaded /\ \E items \in SeqsUpTo(PageItems, MaxItems) : LoadMenu(items)
  \/ RenderMenu

Next ==
  \/ \E p \in Procs : StartGet(p)
  \/ \E p \in Procs, name \in Names : StartCreate(p, name)
  \/ \E p \in Procs, id \in 1..MaxId, name \in EditNames : StartUpdate(p, id, name)
  \/ \E p \in Procs, id \in 1..MaxId : StartDelete(p, id)
  \/ \E p \in Procs, v \in SettingsVals : StartPutSettings(p, v)
  \/ \E p \in Procs, ft \in Colls : StartWriteInvalid(p, ft)
  \/ \E p \in Procs : GetSettings(p)
  \/ \E p \in Procs : ReadIO(p)
  \/ \E p \in Procs : ReadResume(p)
  \/ \E p \in Procs : ReadSettingsIO(p)
  \/ \E p \in Procs : ReadSettingsResume(p)
  \/ \E p \in Procs, outcome \in {"ok", "partial"} : WriteFileDone(p, outcome)
  \/ \E p \in Procs, ok \in BOOLEAN : RenameIO(p, ok)
  \/ \E p \in Procs : WriteCommit(p)
  \/ \E p \in Procs, ok \in BOOLEAN : UnlinkDone(p, ok)
  \/ \E p \in Procs : RetryTimer(p)
  \/ \E c \in UnusableFiles : ExternalEdit(c)
  \/ Tick
  \/ NextPage
  \/ NextService

Spec == Init /\ [][Next]_vars

TypeOK ==
  /\ \A p \in Procs : req[p].attempt \in 0..(maxRetries - 1)
  /\ cache.menuData \in ArrIds \cup {Null}

\* ------------------------------------------------- bounded environments
\* The public page alone, over a server that serves no request.
InitPage == Init /\ fs[DATA_FILE] = Text(JArr(<<>>))

SpecPage == InitPage /\ [][NextPage]_vars

\* The public page with its auto-refresh.
SpecRefresh == InitPage /\ [][NextRefresh]_vars

\* The admin page alone.
SpecAdmin == InitPage /\ [][NextAdmin]_vars

\* The schedule evaluator alone.
SpecService == InitPage /\ [][NextService]_vars


Quiet == \A q \in Procs : req[q].op = "idle"

\* the collection a request works on
collOf(r) ==
  IF r.op \in {"get", "create", "update", "delete", "import"} THEN "menuData"
  ELSE IF r.op \in {"putSettings", "getSettings"} THEN "settings" ELSE r.coll

\* the requests in flight next to p all work on collection ft
Alone(p, ft) == \A q \in Procs \ {p} : req[q].op = "idle" \/ collOf(req[q]) = ft

\* Requests served one after another, no I/O error: the ids creates assign.
SerialGet(p) == Quiet /\ StartGet(p)

SerialCreate(p, name) == Quiet /\ StartCreate(p, name)

SerialDelete(p, id) == Quiet /\ StartDelete(p, id)

WriteFileOk(p) == WriteFileDone(p, "ok")

RenameOk(p) == RenameIO(p, TRUE)

NextIds ==
  \/ \E p \in Procs : SerialGet(p)
  \/ \E p \in Procs, name \in Names : SerialCreate(p, name)
  \/ \E p \in Procs, id \in 1..MaxId : SerialDelete(p, id)
  \/ \E p \in Procs : ReadIO(p)
  \/ \E p \in Procs : ReadResume(p)
  \/ \E p \in Procs : WriteFileOk(p)
  \/ \E p \in Procs : RenameOk(p)
  \/ \E p \in Procs : WriteCommit(p)
  \/ Tick

SpecIds == InitWatching("ids") /\ [][NextIds]_vars

\* Requests served one after another, with I/O errors: a request whose write
\* fails at every attempt.
SerialUpdate(p, id, name) == Quiet /\ StartUpdate(p, id, name)

NextFail ==
  \/ \E p \in Procs : SerialGet(p)
  \/ \E p \in Procs, name \in Names : SerialCreate(p, name)
  \/ \E p \in Procs, id \in 1..MaxId, name \in EditNames : SerialUpdate(p, id, name)
  \/ \E p \in Procs : ReadIO(p)
  \/ \E p \in Procs : ReadResume(p)
  \/ \E p \in Procs, outcome \in {"ok", "partial"} : WriteFileDone(p, outcome)
  \/ \E p \in Procs, ok \in BOOLEAN : RenameIO(p, ok)
  \/ \E p \in Procs : WriteCommit(p)
  \/ \E p \in Procs, ok \in BOOLEAN : UnlinkDone(p, ok)
  \/ \E p \in Procs : RetryTimer(p)

SpecFail == Init /\ [][NextFail]_vars

\* Requests served one after another over a data file that may be replaced
\* by an unusable one between requests; no I/O error.
QuietEdit(c) == Quiet /\ ExternalEdit(c)

NextCorrupt ==
  \/ \E p \in Procs : SerialGet(p)
  \/ \E p \in Procs, name \in Names : SerialCreate(p, name)
  \/ \E p \in Procs : ReadIO(p)
  \/ \E p \in Procs : ReadResume(p)
  \/ \E p \in Procs : WriteFileOk(p)
  \/ \E p \in Procs : RenameOk(p)
  \/ \E p \in Procs : WriteCommit(p)
  \/ \E c \in UnusableFiles : QuietEdit(c)
  \/ Tick

SpecCorrupt == InitWatching("fallback") /\ [][NextCorrupt]_vars

\* Requests served one after another, valid and invalid, no I/O error; the
\* data file and the cache at the arrival of the request are recorded.
NextFrame ==
  \/ \E p \in Procs : SerialGet(p)
  \/ \E p \in Procs, name \in Names \cup InvalidNames : SerialCreate(p, name)
  \/ \E p \in Procs, id \in 1..(MaxId + 1), name \in EditNames \cup InvalidNames :
        SerialUpdate(p, id, name)
  \/ \E p \in Procs, id \in 1..(MaxId + 1) : SerialDelete(p, id)
  \/ \E p \in Procs : ReadIO(p)
  \/ \E p \in Procs : ReadResume(p)
  \/ \E p \in Procs : WriteFileOk(p)
  \/ \E p \in Procs : RenameOk(p)
  \/ \E p \in Procs : WriteCommit(p)
  \/ Tick

SpecFrame == InitWatching("frame") /\ [][NextFrame]_vars

\* Creates and updates with and without an image, served one after another,
\* no I/O error.
SerialPost(p, name, image) == Quiet /\ PostMenu(p, name, image)

SerialPut(p, id, name, image) == Quiet /\ PutMenu(p, id, name, image)

NextImages ==
  \/ \E p \in Procs, name \in Names, image \in BodyImages : SerialPost(p, name, image)
  \/ \E p \in Procs, id \in 1..MaxId, name \in EditNames, image \in BodyImages :
        SerialPut(p, id, name, image)
  \/ \E p \in Procs : ReadIO(p)
  \/ \E p \in Procs : ReadResume(p)
  \/ \E p \in Procs : WriteFileOk(p)
  \/ \E p \in Procs : RenameOk(p)
  \/ \E p \in Procs : WriteCommit(p)
  \/ Tick

SpecImages == InitWatching("frame") /\ [][NextImages]_vars

\* Concurrent menu requests, no I/O error.
NextMenu ==
  \/ \E p \in Procs : StartGet(p)
  \/ \E p \in Procs, name \in Names : StartCreate(p, name)
  \/ \E p \in Procs, id \in 1..MaxId, name \in EditNames : StartUpdate(p, id, name)
  \/ \E p \in Procs, id \in 1..MaxId : StartDelete(p, id)
  \/ \E p \in Procs : ReadIO(p)
  \/ \E p \in Procs : ReadResume(p)
  \/ \E p \in Procs : WriteFileOk(p)
  \/ \E p \in Procs : RenameOk(p)
  \/ \E p \in Procs : WriteCommit(p)
  \/ \E p \in Procs : RetryTimer(p)

SpecMenu == Init /\ [][NextMenu]_vars

\* Concurrent reads and creates, no I/O error; the read that follows a
\* successful write is recorded.
NextReads ==
  \/ \E p \in Procs : StartGet(p)
  \/ \E p \in Procs, name \in Names : StartCreate(p, name)
  \/ \E p \in Procs : ReadIO(p)
  \/ \E p \in Procs : ReadResume(p)
  \/ \E p \in Procs : WriteFileOk(p)
  \/ \E p \in Procs : RenameOk(p)
  \/ \E p \in Procs : WriteCommit(p)
  \/ \E p \in Procs : RetryTimer(p)
  \/ Tick

SpecReads == InitWatching("reads") /\ [][NextReads]_vars

\* The write protocol of both collections with I/O errors: writeFile and
\* rename may throw; unlink fails only when there is nothing to remove.  The
\* requests in flight at one time work on the same collection.
MenuGet(p) == Alone(p, "menuData") /\ StartGet(p)

MenuCreate(p, name) == Alone(p, "menuData") /\ StartCreate(p, name)

SettingsPut(p, v) == Alone(p, "settings") /\ StartPutSettings(p, v)

WriteInvalid(p, ft) == Alone(p, ft) /\ StartWriteInvalid(p, ft)

UnlinkCleanup(p, ok) ==
  /\ ok \/ fs[tempFile(req[p].coll)].kind = "missing"
  /\ UnlinkDone(p, ok)

NextWrites ==
  \/ \E p \in Procs : MenuGet(p)
  \/ \E p \in Procs, name \in Names : MenuCreate(p, name)
  \/ \E p \in Procs, v \in SettingsVals : SettingsPut(p, v)
  \/ \E p \in Procs, ft \in Colls : WriteInvalid(p, ft)
  \/ \E p \in Procs : ReadIO(p)
  \/ \E p \in Procs : ReadResume(p)
  \/ \E p \in Procs, outcome \in {"ok", "partial"} : WriteFileDone(p, outcome)
  \/ \E p \in Procs, ok \in BOOLEAN : RenameIO(p, ok)
  \/ \E p \in Procs : WriteCommit(p)
  \/ \E p \in Procs, ok \in BOOLEAN : UnlinkCleanup(p, ok)
  \/ \E p \in Procs : RetryTimer(p)

SpecWrites == Init /\ [][NextWrites]_vars

\* Concurrent reads and creates with I/O errors; what a read call returns
\* over a missing file is recorded.
NextHeals ==
  \/ \E p \in Procs : StartGet(p)
  \/ \E p \in Procs, name \in Names : StartCreate(p, name)
  \/ \E p \in Procs : ReadIO(p)
  \/ \E p \in Procs : ReadResume(p)
  \/ \E p \in Procs, outcome \in {"ok", "partial"} : WriteFileDone(p, outcome)
  \/ \E p \in Procs, ok \in BOOLEAN : RenameIO(p, ok)
  \/ \E p \in Procs : WriteCommit(p)
  \/ \E p \in Procs, ok \in BOOLEAN : UnlinkCleanup(p, ok)
  \/ \E p \in Procs : RetryTimer(p)

SpecHeals == InitWatching("heals") /\ [][NextHeals]_vars

\* Creates and settings updates whose writeFile and rename may throw, with
\* the attempt of the last throw recorded.
InitThrows == InitWatching("throws") /\ fs[DATA_FILE] = Text(JArr(<<>>))

NextThrows ==
  \/ \E p \in Procs, name \in Names : MenuCreate(p, name)
  \/ \E p \in Procs, v \in SettingsVals : SettingsPut(p, v)
  \/ \E p \in Procs : ReadIO(p)
  \/ \E p \in Procs : ReadResume(p)
  \/ \E p \in Procs, outcome \in {"ok", "partial"} : WriteFileDone(p, outcome)
  \/ \E p \in Procs, ok \in BOOLEAN : RenameIO(p, ok)
  \/ \E p \in Procs : WriteCommit(p)
  \/ \E p \in Procs, ok \in BOOLEAN : UnlinkCleanup(p, ok)
  \/ \E p \in Procs : RetryTimer(p)

SpecThrows == InitThrows /\ [][NextThrows]_vars

\* Concurrent settings requests, no I/O error; the readSettings call that
\* follows a successful writeSettings is recorded.
\* req.body.filterCategories: absent, not an array, or an array (empty, in
\* either order, with an element that is dropped and one that is normalised
\* to the key of another)
BodyCats == {NoCats, NotArray, Cats(<<>>), Cats(<<"drinks", "fries">>),
             Cats(<<"fries", "drinks">>), Cats(<<"", "fries", "Fries ">>)}

InitSettings == InitWatching("settings") /\ fs[DATA_FILE] = Text(JArr(<<>>))

NextSettings ==
  \/ \E p \in Procs : GetSettings(p)
  \/ \E p \in Procs, v \in SettingsVals, fc \in BodyCats : PutSettings(p, v, fc)
  \/ \E p \in Procs : ReadSettingsIO(p)
  \/ \E p \in Procs : ReadSettingsResume(p)
  \/ \E p \in Procs : WriteFileOk(p)
  \/ \E p \in Procs : RenameOk(p)
  \/ \E p \in Procs : WriteCommit(p)
  \/ \E p \in Procs : RetryTimer(p)
  \/ Tick

SpecSettings == InitSettings /\ [][NextSettings]_vars

\* Requests to the protected routes, served one after another, on sessions
\* that log in, fetch a token and log out; public reads; no I/O error.
\* req.body of an import: data that is no array, or an array of items (with
\* and without id, valid and not), and the replace flag
ImportItems == [id : 0..1, name : Names \cup InvalidNames]

ImportBodies ==
  {[isArray |-> FALSE, data |-> <<>>, replace |-> FALSE]}
    \cup {[isArray |-> TRUE, data |-> d, replace |-> r] :
             d \in SeqsUpTo(ImportItems, 1), r \in BOOLEAN}

RequestTokens == {Absent, Malformed} \cup 1..MaxTokens

\* the administrator logs in on session sidA; sidB stays a visitor's session
GateLogin == Login("sidA", "ipA", ADMIN_PASSWORD)

InitGate == Init /\ fs[DATA_FILE] = Text(JArr(<<>>))

NextGate ==
  \/ GateLogin
  \/ \E sid \in Sids : AuthStatus(sid)
  \/ \E sid \in Sids : Logout(sid)
  \/ SerialGet(1)
  \/ Quiet /\ \E sid \in Sids, token \in RequestTokens, name \in Names \cup InvalidNames :
                 ProtectedPost(1, sid, token, name, Undefined)
  \/ Quiet /\ \E sid \in Sids, token \in RequestTokens, id \in 1..MaxId, name \in EditNames :
                 ProtectedPut(1, sid, token, id, name, Undefined)
  \/ Quiet /\ \E sid \in Sids, token \in RequestTokens, id \in 1..MaxId :
                 ProtectedDelete(1, sid, token, id)
  \/ Quiet /\ \E sid \in Sids, token \in RequestTokens, v \in SettingsVals :
                 ProtectedPutSettings(1, sid, token, v, NoCats)
  \/ Quiet /\ \E sid \in Sids, token \in RequestTokens, body \in ImportBodies :
                 ProtectedImport(1, sid, token, body)
  \/ \E p \in Procs : ReadIO(p)
  \/ \E p \in Procs : ReadResume(p)
  \/ \E p \in Procs : WriteFileOk(p)
  \/ \E p \in Procs : RenameOk(p)
  \/ \E p \in Procs : WriteCommit(p)

SpecGate == InitGate /\ [][NextGate]_vars

\* Logins from two addresses on one session, with every kind of password,
\* on a clock that steps to the instants around the ends of lockouts.
LoginInstants == {T0 + k * LOGIN_LOCKOUT_TIME + d : k \in 0..MaxLock, d \in {0, 1}}

Elapse(t) ==
  /\ now < t
  /\ \A tm \in timers : t <= tm.due   \* a timer runs when it is due
  /\ now' = t
  /\ hist' = [hist EXCEPT !.last = NoLast, !.login = NoLogin, !.assigned = NoAssigned]
  /\ UNCHANGED <<fs, cache, fileLocks, heap, req, page, service, sessions, loginAttempts, timers, admin>>

InitLogin == InitWatching("login") /\ fs[DATA_FILE] = Text(JArr(<<>>))

NextLogin ==
  \/ \E ip \in Ips, password \in Passwords : Login("sidA", ip, password)
  \/ Logout("sidA")
  \/ \E t \in LoginInstants : Elapse(t)

SpecLogin == InitLogin /\ [][NextLogin]_vars

\* a cleanup timer that is due runs its callback
CleanupTimer(tm) ==
  /\ tm \in timers /\ now >= tm.due
  /\ Commit([St EXCEPT !.loginAttempts[tm.ip] = cleanup(@, tm),
                       !.timers = @ \ {tm}])

\* Logins from two addresses with a wrong or the right password, on a clock
\* that steps to the instants around the cleanup delays; timers run when due.
CleanupInstants == {T0 + k * CLEANUP_DELAY + d : k \in 0..MaxHours, d \in {0, 1}}

NextCleanup ==
  \/ \E ip \in Ips, password \in {"wrong", ADMIN_PASSWORD} : Login("sidA", ip, password)
  \/ \E t \in CleanupInstants : Elapse(t)
  \/ \E tm \in timers : CleanupTimer(tm)

SpecCleanup == InitPage /\ [][NextCleanup]_vars

\* Imports (slot 1) next to creates (slot 2), no I/O error.  The imported items carry
\* no id, an id that is new, or one that an existing record or another
\* imported item carries; some are invalid.
ImportedItems == [id : 0..(MaxId + 1), name : Names \cup InvalidNames]

ImportedBodies ==
  {[isArray |-> FALSE, data |-> <<>>, replace |-> FALSE]}
    \cup {[isArray |-> TRUE, data |-> d, replace |-> r] :
             d \in SeqsUpTo(ImportedItems, MaxImport), r \in BOOLEAN}

InitImport == Init /\ fs[DATA_FILE] = Text(JArr(<<>>))

NextImport ==
  \/ \E name \in Names : StartCreate(2, name)
  \/ req[1].op = "idle" /\ \E body \in ImportedBodies : StartImport(1, body)
  \/ \E p \in Procs : ReadIO(p)
  \/ \E p \in Procs : ReadResume(p)
  \/ \E p \in Procs : WriteFileOk(p)
  \/ \E p \in Procs : RenameOk(p)
  \/ \E p \in Procs : WriteCommit(p)
  \/ \E p \in Procs : RetryTimer(p)

SpecImport == InitImport /\ [][NextImport]_vars

\* The same requests served one after another.
NextImportSerial ==
  \/ \E p \in Procs, name \in Names : SerialCreate(p, name)
  \/ Quiet /\ \E p \in Procs, body \in ImportedBodies : StartImport(p, body)
  \/ \E p \in Procs : ReadIO(p)
  \/ \E p \in Procs : ReadResume(p)
  \/ \E p \in Procs : WriteFileOk(p)
  \/ \E p \in Procs : RenameOk(p)
  \/ \E p \in Procs : WriteCommit(p)

SpecImportSerial == InitImport /\ [][NextImportSerial]_vars

\* Settings updates served one after another, no I/O error.  A colour field
\* is absent, no string, empty, a six-digit colour in either case, a
\* three-digit one, one without "#", one with a seventh digit or with a
\* letter that is no hex digit; a size field is absent, no number, a string
\* that starts with a number or does not, or a number below, inside and
\* above the ranges.  A body sets all colours or one, and all sizes or one.
BodyColours ==
  {FieldAbsent, FieldOther, FieldStr(<<>>),
   FieldStr(<<"#", "a", "b", "c", "d", "e", "f">>),
   FieldStr(<<"#", "0", "D", "3", "B", "2", "E">>),
   FieldStr(<<"#", "f", "f", "f">>),
   FieldStr(<<"f", "f", "f", "f", "f", "f">>),
   FieldStr(<<"#", "f", "f", "f", "f", "f", "f", "f">>),
   FieldStr(<<"#", "g", "g", "g", "0", "0", "0">>)}

BodySizes ==
  {FieldAbsent, FieldOther, FieldStr(<<"a", "b", "c">>),
   FieldStr(<<"2", ".", "5", "r", "e", "m">>)}
    \cup {FieldNum(x) : x \in {-1, 0, 60, 100, 250, 1000}}

KnobBodies ==
  {Body([c \in Colours |-> IF c \in cs THEN colour ELSE FieldAbsent],
        [k \in Knobs |-> IF k \in ks THEN size ELSE FieldAbsent]) :
     colour \in BodyColours, size \in BodySizes,
     cs \in {Colours, {"primaryColor"}}, ks \in {Knobs, {"cardOpacity"}}}

NextKnobs ==
  \/ Quiet /\ \E v \in KnobBodies : PutSettings(1, v, NoCats)
  \/ WriteFileOk(1)
  \/ RenameOk(1)
  \/ WriteCommit(1)

SpecKnobs == InitPage /\ [][NextKnobs]_vars

\* ------------------------------------------------------------ the claims
Range(seq) == {seq[i] : i \in 1..Len(seq)}

NoDupIds(items) ==
  \A i, j \in 1..Len(items) : i # j => items[i].id # items[j].id

\* the records of the cached array, if there is one
CachedItems == IF cache.menuData = Null THEN <<>> ELSE heap[cache.menuData]

\* the records persisted in data.json
FileItems == fs[DATA_FILE].val.items

\* p is between starting to write the temp file of ft and finishing its
\* rename or unlink
InTempSection(p, ft) == req[p].pc \in TempSection /\ req[p].coll = ft

\* C1: with requests served one after another and no I/O error, the id a
\* create assigns is greater than every id an earlier create assigned.
C1_IdMonotonic ==
  hist.lastAssigned = 0 \/ hist.lastAssigned > hist.maxAssigned

\* C2: no two records of the cached array or of the persisted file carry
\* the same id.
C2_UniqueIds == NoDupIds(CachedItems) /\ NoDupIds(FileItems)

\* C3: at most one write call per collection is inside its temp-file section.
C3_LockSerialization ==
  \A ft \in Colls : Cardinality({p \in Procs : InTempSection(p, ft)}) <= 1

C3_Witness ==
  \E p, q \in Procs :
    /\ p # q
    /\ InTempSection(p, req[p].coll)
    /\ req[q].pc = "w_wait" /\ req[q].coll = req[p].coll

\* C4: the real file of each collection holds its initial content or the
\* complete payload of one write call (right after a rename: the payload of
\* the call that renamed), and what a read hands to JSON.parse is such a
\* content too, also while a write is in progress or failed partway.
WholeContent(c) == c \in InitFiles \/ (c.kind = "text" /\ c.complete)

C4_AtomicVisibility ==
  /\ \A ft \in Colls : WholeContent(fs[fileOf(ft)])
  /\ \A p \in Procs : req[p].pc = "r_resume" => WholeContent(req[p].buf)
  /\ \A p \in Procs : req[p].pc = "w_renamed" => fs[fileOf(req[p].coll)] = Text(req[p].payload)

C4_Witness ==
  \E p, q \in Procs :
    /\ req[p].pc = "w_unlink" /\ req[p].coll = "menuData"
    /\ fs[tempFile("menuData")].kind = "text" /\ ~fs[tempFile("menuData")].complete
    /\ req[q].pc = "r_resume" /\ parseOk(req[q].buf)

\* C5: the read call that follows a successful writeMenuData(X), with no
\* other write completing in between and no request left in flight, returns
\* exactly X.
C5_ReadAfterWrite ==
  (hist.readObs.seen /\ Quiet) => hist.readObs.got = hist.readObs.want

\* C6: with requests served one after another, when a create or update ends
\* with a failed write, a cached array holds the records that are persisted
\* (the last-known-good collection, without the unsaved item or edit).
C6_FailureLeavesCache ==
  (hist.last.res = "writefail" /\ hist.last.op \in {"create", "update"})
    => (cache.menuData = Null \/ CachedItems = FileItems)

\* C7: a write call returns a boolean, and it returns true only after its
\* rename put a temp file holding exactly its payload over the real file.
C7_WriteResult ==
  /\ hist.lastW.res \in BOOLEAN
  /\ (hist.lastW.coll # "none" /\ hist.lastW.res) => hist.lastW.renamed
  /\ \A p \in Procs : req[p].pc = "w_renamed" => req[p].renamed

C7_Witness ==
  /\ hist.lastW.coll # "none" /\ hist.lastW.res /\ hist.lastW.tries > 1
  /\ \E ft \in Colls : fs[fileOf(ft)].kind = "text" /\ fs[fileOf(ft)].val.k # "arr"

\* C8: a write call makes at most maxRetries attempts; one that found the
\* lock held at each of them returns false after maxRetries attempts without
\* having touched the temp file or the real file.
C8_BoundedWait ==
  /\ \A p \in Procs : req[p].attempt < maxRetries
  /\ hist.lastW.tries <= maxRetries
  /\ (hist.lastW.coll # "none" /\ ~hist.lastW.acq)
       => /\ ~hist.lastW.res
          /\ ~hist.lastW.touched
          /\ hist.lastW.tries = maxRetries
  /\ \A p \in Procs : (req[p].pc \in WritePcs /\ ~req[p].acq)
                         => req[p].pc = "w_wait" /\ ~req[p].touched

C8_Witness == hist.lastW.coll # "none" /\ ~hist.lastW.acq

\* C9: fileLocks[ft] is set exactly while a write call is inside its
\* temp-file section; a call that waits for a retry or has returned holds
\* no lock.
C9_LockRelease ==
  \A ft \in Colls : fileLocks[ft] = (\E p \in Procs : InTempSection(p, ft))

C9_Witness ==
  \E p \in Procs :
    /\ req[p].pc = "w_wait" /\ req[p].acq
    /\ ~fileLocks[req[p].coll]

\* C10 as stated: no readMenuData call is ever inside the write protocol
\* (acquiring the menuData lock or waiting for a retry).
C10_ReadsNeverLock ==
  \A p \in Procs : req[p].caller # "selfheal"

\* C10 amended: a readMenuData call enters the write protocol only when its
\* file read reported ENOENT; with any other outcome it returns in the step
\* in which it resumes.
C10_LockOnlyWhenMissing ==
  [][\A p \in Procs :
       (req'[p].caller = "selfheal" /\ req[p].caller # "selfheal")
         => (req[p].pc = "r_resume" /\ req[p].buf.kind = "missing")]_vars

C10_Witness ==
  /\ hist.last.op = "get" /\ hist.last.src = "parsefail"
  /\ fileLocks["menuData"]
\* C11: a read call that found data.json unparsable or not holding an array
\* returns the records held in the cache when the cache holds a value, and an
\* empty collection when it holds none.
C11_CorruptFallback ==
  hist.fallback.src # "none" =>
    hist.fallback.got = (IF hist.fallback.hadCache THEN hist.fallback.cached ELSE <<>>)

\* C12 as stated: a read call that found data.json missing returns an empty
\* collection, and when it returns data.json exists with content [].
C12_SelfHeal ==
  hist.fallback.src = "enoent" =>
    /\ hist.fallback.got = <<>>
    /\ fs[DATA_FILE] = Text(JArr(<<>>))

\* C12 amended: a read call that found data.json missing returns an empty
\* collection; when its write of [] succeeded, data.json exists with content
\* [] as it returns; once data.json exists it stays, and a read of the file
\* issued from then on never finds it missing (so it does not write).
C12_SelfHealIfWritten ==
  /\ [](hist.fallback.src = "enoent" =>
          /\ hist.fallback.got = <<>>
          /\ hist.lastW.res => fs[DATA_FILE] = Text(JArr(<<>>)))
  /\ [][fs[DATA_FILE].kind # "missing" =>
          /\ fs'[DATA_FILE].kind # "missing"
          /\ \A p \in Procs :
                (req[p].pc = "r_read" /\ req'[p].pc = "r_resume")
                  => req'[p].buf.kind # "missing"]_vars

C12_Witness ==
  /\ hist.fallback.src = "enoent" /\ hist.last.op = "get"
  /\ hist.lastW.res /\ hist.lastW.tries > 1
  /\ fs[DATA_FILE] = Text(JArr(<<>>))

\* C13: every rendered card is shown as available exactly when its item's
\* available flag is not false and its schedule result is not unavailable;
\* the card of an item with available = false is never shown as available.
C13_ManualOverrideWins ==
  page.rendered =>
    LET its == sortMenuItems(page.items, page.currentSort)
    IN /\ Len(page.grid) = Len(its)
       /\ \A k \in 1..Len(its) :
            /\ (page.grid[k].className = "menu-item ")
                 = ~(its[k].available = "false" \/
                     (its[k].scheduleAvailability.present /\
                      its[k].scheduleAvailability.isAvailable = "false"))
            /\ its[k].available = "false" => page.grid[k].className = "menu-item unavailable"

C13_Witness ==
  /\ page.rendered
  /\ \E k \in 1..Len(page.items) :
       /\ page.items[k].available = "false"
       /\ page.items[k].scheduleAvailability.present
       /\ page.items[k].scheduleAvailability.isAvailable = "true"
  /\ \E k \in 1..Len(page.grid) : page.grid[k].className = "menu-item unavailable"

\* the schedule under evaluation constrains the time of day only, start <= end
OnlyTimeRange ==
  /\ service.evaluated
  /\ ~service.schedule.days.has /\ ~service.schedule.dateRange.has
  /\ service.schedule.timeRange.has
  /\ service.schedule.timeRange.start <= service.schedule.timeRange.end

\* C14: for a schedule with only a timeRange (start <= end) the item is
\* available exactly from start to end, both included; before start the next
\* availability is today at start, after end it is the next day at start.
C14_TimeWindow ==
  OnlyTimeRange =>
    LET tr == service.schedule.timeRange
        at == service.at
    IN /\ service.info.isAvailable = (tr.start <= at.tod /\ at.tod <= tr.end)
       /\ at.tod < tr.start =>
            service.info.nextAvailable = [day |-> at.day, tod |-> tr.start]
       /\ at.tod > tr.end =>
            service.info.nextAvailable = [day |-> at.day + 1, tod |-> tr.start]

C14_Witness ==
  /\ OnlyTimeRange
  /\ service.schedule.timeRange.start < service.schedule.timeRange.end
  /\ service.at.tod = service.schedule.timeRange.end
  /\ service.info.isAvailable

\* the schedule under evaluation has a dateRange whose end lies before today
Expired ==
  /\ service.evaluated
  /\ service.schedule.dateRange.has
  /\ service.schedule.dateRange.end # NoDate
  /\ service.schedule.dateRange.end < service.at.day

\* C15 as stated: a schedule whose dateRange.end lies before today evaluates
\* to unavailable with the expiry reason and no next availability.
C15_ExpiredForGood ==
  Expired =>
    service.info = [isAvailable |-> FALSE, reason |-> "expired",
                    nextAvailable |-> NoInstant]

\* C15 amended: a schedule whose dateRange.end lies before today evaluates to
\* unavailable, now and at every later instant; the expiry reason and the
\* absent next availability are reported when the day check passes, the day
\* check's otherwise.
C15_ExpiredUnlessDayFails ==
  /\ [](Expired =>
          /\ ~service.info.isAvailable
          /\ dayPasses(service.schedule, service.at) =>
                (service.info.reason = "expired" /\ service.info.nextAvailable = NoInstant)
          /\ ~dayPasses(service.schedule, service.at) =>
                (service.info.reason = "not available today"
                   /\ service.info.nextAvailable # NoInstant))
  /\ [][(service.configured /\ dateExpired(service.schedule, service.at))
          => dateExpired(service'.schedule, service'.at)]_vars

C15_Witness ==
  /\ Expired
  /\ service.at.day > service.schedule.dateRange.end + 1
  /\ service.schedule.timeRange.has /\ timePasses(service.schedule, service.at)
  /\ service.info.reason = "expired"

\* the three constraints of the schedule under evaluation, each passing when
\* it is not specified
DayHolds ==
  LET d == service.schedule.days
  IN (d.has /\ d.set # {}) => (service.at.day % WeekLen) \in d.set

DateHolds ==
  LET r == service.schedule.dateRange
  IN r.has => /\ (r.start = NoDate \/ r.start <= service.at.day)
              /\ (r.end = NoDate \/ service.at.day <= r.end)

TimeHolds ==
  LET r == service.schedule.timeRange
  IN r.has => (r.start <= service.at.tod /\ service.at.tod <= r.end)

\* C16: the item is available exactly when the day, dateRange and timeRange
\* constraints that are specified all pass; otherwise the reason and the next
\* availability are those of the first failing check in the order day,
\* dateRange, timeRange.
C16_ChecksInOrder ==
  service.evaluated =>
    /\ service.info.isAvailable = (DayHolds /\ DateHolds /\ TimeHolds)
    /\ ~DayHolds => service.info = dayCheck(service.schedule, service.at)
    /\ ~DayHolds => service.info.reason = "not available today"
    /\ (DayHolds /\ ~DateHolds) =>
          /\ service.info = dateCheck(service.schedule, service.at)
          /\ service.info.reason \in {"expired", "not yet available"}
    /\ (DayHolds /\ DateHolds /\ ~TimeHolds) =>
          /\ service.info = timeCheck(service.schedule, service.at)
          /\ service.info.reason = "outside hours"

C16_Witness ==
  /\ service.evaluated
  /\ ~DayHolds /\ ~DateHolds /\ ~TimeHolds
  /\ service.info.reason = "not available today"

\* C17: when a create or update is rejected by validation, the data file,
\* the cache and the cached max id are what they were when the request
\* arrived.
C17_InvalidChangesNothing ==
  hist.last.res = "invalid" =>
    /\ fs[DATA_FILE] = hist.before.file
    /\ cache = hist.before.cache
    /\ CachedItems = hist.before.items

\* the request that just ended was an update or delete of an id that no
\* record carried when it arrived, in the file or in the cache
UnknownId ==
  /\ hist.last.op \in {"update", "delete"}
  /\ hist.last.res # "invalid"
  /\ \A it \in Range(hist.before.file.val.items) \cup Range(hist.before.items) :
        it.id # hist.last.item.id

\* a cached array holds the records it held, or the persisted ones
CacheKept ==
  cache.menuData # Null =>
    CachedItems \in {hist.before.items, hist.before.file.val.items}

\* C18 as stated: an update or delete of an unknown id reports not found and
\* performs no write; the data file and the cached records are unchanged.
C18_NotFoundChangesNothing ==
  UnknownId =>
    /\ hist.last.res = "notfound"
    /\ fs[DATA_FILE] = hist.before.file
    /\ CacheKept

\* C18 amended: an update or delete of an unknown id reports not found; the
\* persisted records and the cached records are unchanged, and the only write
\* is that of the read call which found the data file missing and created it
\* with content [].
C18_NotFoundKeepsRecords ==
  UnknownId =>
    /\ hist.last.res = "notfound"
    /\ FileItems = hist.before.file.val.items
    /\ CacheKept
    /\ fs[DATA_FILE] # hist.before.file =>
          (hist.before.file = Missing /\ fs[DATA_FILE] = Text(JArr(<<>>)))

C18_Witness ==
  /\ UnknownId /\ hist.last.op = "update" /\ hist.last.res = "notfound"
  /\ hist.before.items # <<>>
  /\ FileItems = hist.before.items

\* the stored image of the record with this id ("undefined" without record)
StoredImage(items, itemId) ==
  IF \E i \in 1..Len(items) : items[i].id = itemId
  THEN items[CHOOSE i \in 1..Len(items) : items[i].id = itemId].image
  ELSE Undefined

\* C19: after a successful update without an image field the record's stored
\* image is what it was before; a successful update leaves a record without
\* the image it had only when the request supplied null or an empty string.
C19_StickyImage ==
  (hist.last.op = "update" /\ hist.last.res = "ok") =>
    LET was  == StoredImage(hist.before.file.val.items, hist.last.item.id)
        isNow == StoredImage(FileItems, hist.last.item.id)
    IN /\ hist.last.image = Undefined => isNow = was
       /\ (isNow = JsNull /\ was # JsNull) => hist.last.image \in {JsNull, ""}
\* C20: the readSettings call that follows a writeSettings(S) that returned
\* true, for an S with a filterCategories array, with no other write
\* completing in between and no request left in flight, returns a value equal
\* to S, with the same filterCategories elements in the same order.
C20_SettingsRoundTrip ==
  (hist.settingsObs.seen /\ Quiet /\ hist.settingsObs.want.fc.kind = "array")
    => hist.settingsObs.got = hist.settingsObs.want

\* the requests that change data.json or settings.json on purpose
ChangingOps == {"create", "update", "delete", "import", "putSettings"}

\* answers of requireAuth and csrfProtection (401, 403, and 500 for a token
\* that makes the comparison throw)
Refusals == {"unauthorized", "forbidden", "error"}

\* C21: every create, update, delete, import and settings update that got
\* past its middleware was made on a session with isAuthenticated = true and
\* carried a CSRF token equal to that session's token; the step of a request
\* that requireAuth or csrfProtection refuses leaves data.json, settings.json,
\* their temp files and the cache as they were.
C21_AuthorizationGate ==
  /\ [](\A p \in Procs : req[p].op \in ChangingOps =>
          /\ req[p].session.isAuthenticated
          /\ req[p].token > 0
          /\ req[p].token = req[p].session.csrfToken)
  /\ [][hist'.last.res \in Refusals => (fs' = fs /\ cache' = cache)]_vars

\* a request with a wrong token was refused on a logged-in session after an
\* authorized request had changed data.json
C21_Witness ==
  /\ hist.last.res = "forbidden"
  /\ \E sid \in Sids : sessions.store[sid].isAuthenticated /\ sessions.store[sid].csrfToken # NoToken
  /\ FileItems # <<>>

\* the address of the login request just served is within 15 minutes of its
\* fifth wrong password in a row
InLockout ==
  /\ hist.login.seen
  /\ hist.login.lockedAt # 0
  /\ now < hist.login.lockedAt + LOGIN_LOCKOUT_TIME

\* C22: a login request from an address within 15 minutes of its fifth wrong
\* password in a row is answered 429 and leaves the session's isAuthenticated
\* as it was, whatever password it carries; one that carries the right
\* password once the 15 minutes are over succeeds and authenticates the session.
C22_LoginLockout ==
  /\ InLockout =>
       /\ hist.login.res = "429"
       /\ sessions.store[hist.login.sid].isAuthenticated = hist.login.wasAuthenticated
  /\ (/\ hist.login.seen /\ hist.login.lockedAt # 0
      /\ now >= hist.login.lockedAt + LOGIN_LOCKOUT_TIME
      /\ hist.login.password = ADMIN_PASSWORD) =>
       (hist.login.res = "ok" /\ sessions.store[hist.login.sid].isAuthenticated)

\* the right password was refused in the last millisecond of a lockout
C22_Witness ==
  /\ InLockout
  /\ now + 1 = hist.login.lockedAt + LOGIN_LOCKOUT_TIME
  /\ hist.login.password = ADMIN_PASSWORD
  /\ ~hist.login.wasAuthenticated

\* the filterCategories persisted in settings.json
PersistedCategories == fs[SETTINGS_FILE].val.fc.elems

\* C23: no two entries of the persisted filterCategories have category keys
\* that are equal ignoring case.
C23_UniqueCategories ==
  \A i, j \in 1..Len(PersistedCategories) :
    i # j => normalise(PersistedCategories[i]) # normalise(PersistedCategories[j])

\* C24: the id a create assigns is 1 plus the highest id among the records of
\* the collection it is added to (1 for an empty collection), whether the
\* maximum came from the max-id cache or from a scan.
C24_AssignedIdIsMaxPlusOne ==
  hist.assigned.seen => hist.assigned.newId = hist.assigned.highest + 1

\* the rename of p's create takes effect in this step (with no I/O error the
\* write call then returns true and the create reports success)
CreateWrites(p) ==
  /\ req[p].op = "create" /\ req[p].caller = "handler"
  /\ req[p].pc = "w_rename" /\ req'[p].pc = "w_renamed"

\* C25: in every interleaving, the write of a create that reports success
\* adds exactly one record to the persisted collection and removes none of
\* the records persisted immediately before it.
C25_NoLostUpdateOnCreate ==
  [][\A p \in Procs :
       CreateWrites(p) =>
         /\ Len(FileItems') = Len(FileItems) + 1
         /\ \A i \in 1..Len(FileItems) : \E j \in 1..Len(FileItems') :
               FileItems'[j] = FileItems[i]]_vars

\* the rename of the writeMenuData([]) that p's readMenuData called after
\* ENOENT takes effect in this step
SelfHealWrites(p) ==
  /\ req[p].caller = "selfheal"
  /\ req[p].pc = "w_rename" /\ req'[p].pc = "w_renamed"

\* C26: the empty array readMenuData persists after seeing a missing file
\* never replaces a non-empty collection: when its rename takes effect the
\* data file is missing or holds no record.
C26_SelfHealNeverClobbers ==
  [][\A p \in Procs : SelfHealWrites(p) => FileItems = <<>>]_vars

\* the write call that just returned had a writeFile or a rename throw
Threw == hist.lastW.coll # "none" /\ hist.lastW.threwAt # 0

\* C27: a write call during which the temp-file write or the rename threw
\* returns false.
C27_ThrowMeansFailure == Threw => ~hist.lastW.res

\* C28: whenever the lock of a collection is free, the temp file of that
\* collection does not exist (unlink fails only when there is nothing to remove).
C28_NoLeftoverTempFile ==
  \A ft \in Colls : ~fileLocks[ft] => fs[tempFile(ft)].kind = "missing"

\* a write call that had written its temp file returned false, and the temp
\* file is gone
C28_Witness ==
  /\ hist.lastW.coll # "none" /\ ~hist.lastW.res /\ hist.lastW.touched
  /\ ~fileLocks[hist.lastW.coll]
  /\ fs[tempFile(hist.lastW.coll)].kind = "missing"

\* the rename of the write of p's update or delete takes effect in this step
HandlerWrites(p, op) ==
  /\ req[p].op = op /\ req[p].caller = "handler"
  /\ req[p].pc = "w_rename" /\ req'[p].pc = "w_renamed"

\* the persisted records after the step are those before it with the record
\* of this id replaced in place by one of the same id
ReplacedInPlace(id) ==
  LET idx == findIndex(FileItems, id)
  IN /\ idx # 0
     /\ Len(FileItems') = Len(FileItems)
     /\ FileItems'[idx].id = id
     /\ \A j \in 1..Len(FileItems) : j # idx => FileItems'[j] = FileItems[j]

\* C29: the write of a successful update replaces the persisted record with
\* that id, keeping its id and position, and the write of a successful delete
\* removes exactly the persisted records with that id; all other records are
\* unchanged and keep their order.
C29_OnlyAddressedRecord ==
  [][\A p \in Procs :
       /\ HandlerWrites(p, "update") => ReplacedInPlace(req[p].id)
       /\ HandlerWrites(p, "delete") =>
             (FileItems' = filterOut(FileItems, req[p].id) /\ FileItems' # FileItems)]_vars

\* C30: the card of an item without a schedule result is shown as available
\* exactly when its available flag is not false (a missing flag counts as
\* true), and it shows no unavailability that comes from a schedule: its
\* schedule badge, if any, is not the unavailable one, and it carries the
\* "Unavailable" badge only when its available flag is false.
C30_UnscheduledFollowsFlag ==
  page.rendered =>
    LET its == sortMenuItems(page.items, page.currentSort)
    IN \A k \in 1..Len(its) :
         ~its[k].scheduleAvailability.present =>
           /\ (page.grid[k].className = "menu-item ") = (its[k].available # "false")
           /\ page.grid[k].scheduleBadge # "schedule-badge unavailable"
           /\ page.grid[k].unavailableBadge = (its[k].available = "false")

\* an item without a schedule result and without an available flag is shown
\* as available next to one that its schedule result makes unavailable
C30_Witness ==
  /\ page.rendered
  /\ \E k \in 1..Len(page.grid) :
       LET it == sortMenuItems(page.items, page.currentSort)[k]
       IN /\ ~it.scheduleAvailability.present /\ it.available = "undefined"
          /\ it.schedule = "set"
          /\ page.grid[k].className = "menu-item "
  /\ \E k \in 1..Len(page.grid) :
       /\ sortMenuItems(page.items, page.currentSort)[k].scheduleAvailability.present
       /\ page.grid[k].className = "menu-item unavailable"
       /\ page.grid[k].scheduleBadge = "schedule-badge unavailable"

\* every record has a positive id and no two records share one
UniquePositiveIds(items) ==
  /\ \A i \in 1..Len(items) : items[i].id > 0
  /\ NoDupIds(items)

\* C31: when the write of an import (merge or replace) takes effect, every
\* record of the persisted collection has a positive id and no two share an
\* id, whatever ids the imported items carried.
C31_ImportUniqueIds ==
  [][\A p \in Procs : HandlerWrites(p, "import") => UniquePositiveIds(FileItems')]_vars

\* an import whose items carried the id of an existing record and no id was
\* written next to that record
C31_Witness ==
  /\ hist.last.op = "import" /\ hist.last.res = "ok"
  /\ Len(FileItems) >= 3
  /\ FileItems[1].image = JsNull
  /\ UniquePositiveIds(FileItems)

\* the rename of the write of p's merge import takes effect in this step, over
\* a persisted collection whose ids are distinct
MergeWrites(p) ==
  /\ HandlerWrites(p, "import") /\ req[p].items # <<>>
  /\ NoDupIds(FileItems)

\* C32: the write of a merge import on a collection whose ids are distinct
\* keeps every persisted record, unchanged and in its position, and appends
\* the valid imported items: the new size is the old size plus their number.
C32_MergeKeepsRecords ==
  [][\A p \in Procs :
       MergeWrites(p) =>
         /\ Len(FileItems') = Len(FileItems) + Len(req[p].items)
         /\ SubSeq(FileItems', 1, Len(FileItems)) = FileItems]_vars

\* the colours and sizes persisted in settings.json
PersistedKnobs == fs[SETTINGS_FILE].val.v

\* the settings update whose write was just renamed over settings.json
Updating(p) == req[p].op = "putSettings" /\ req[p].pc = "w_renamed"

\* C33: once a settings update has written settings.json, each persisted
\* size lies within its range and each persisted colour is a six-digit hex
\* colour; a size whose input is no number is the default of that knob, and
\* a colour is the submitted one or the default of that colour.
C33_SettingsValid ==
  /\ fs[SETTINGS_FILE].kind # "missing" =>
        /\ \A k \in Knobs : /\ PersistedKnobs.sizes[k] >= knobRange(k).min
                             /\ PersistedKnobs.sizes[k] <= knobRange(k).max
        /\ \A c \in Colours :
              /\ Len(PersistedKnobs.colours[c]) = 7
              /\ PersistedKnobs.colours[c][1] = "#"
              /\ \A i \in 2..7 : PersistedKnobs.colours[c][i] \in HexDigits
  /\ \A p \in Procs :
        Updating(p) =>
          /\ \A k \in Knobs :
                parseFloat(req[p].body.sizes[k]).isNaN
                  => PersistedKnobs.sizes[k] = knobRange(k).defaultValue
          /\ \A c \in Colours :
                \/ PersistedKnobs.colours[c] = defaultColor(c)
                \/ /\ req[p].body.colours[c].kind = "string"
                   /\ PersistedKnobs.colours[c] = req[p].body.colours[c].chars

\* an update that sent a size above every range and an upper-case colour
\* persisted the upper limits and that colour
C33_Witness ==
  \E p \in Procs :
    /\ Updating(p)
    /\ \A k \in Knobs : /\ req[p].body.sizes[k] = FieldNum(1000)
                         /\ PersistedKnobs.sizes[k] = knobRange(k).max
    /\ \A c \in Colours : PersistedKnobs.colours[c] = <<"#", "0", "D", "3", "B", "2", "E">>

\* C34: an entry of the loginAttempts map is gone once more than an hour has
\* passed since its last failed attempt and the cleanup timers that were due
\* have run.
C34_OldEntriesCleaned ==
  \A ip \in Ips :
    (loginAttempts[ip].present /\ now > loginAttempts[ip].lastAttempt + CLEANUP_DELAY)
      => \E tm \in timers : tm.ip = ip /\ tm.due <= now

\* C35: when the item modal is closed, in any of the four ways, while the
\* form differs from its stored initial state, the form is not reset and
\* the modal not hidden before the user has confirmed the discard: the
\* click leaves the confirmation open, and until it is confirmed the form,
\* editingItemId and the modal are as they were at the click.
C35_ConfirmBeforeDiscard ==
  (admin.close.seen /\ admin.close.dirty) =>
    /\ admin.close.outcome # "closed"
    /\ admin.close.outcome \in {"asking", "kept"} =>
         /\ admin.form = admin.close.form
         /\ admin.editingItemId = admin.close.editingItemId
         /\ admin.shown

\* C36: a submit of the item form in edit mode (state.editingItemId set)
\* sends its PUT to the id of the item whose data fills the form, the one
\* the hidden itemId field names.
C36_EditTargetMatchesForm ==
  (admin.submit.seen /\ admin.submit.editingItemId # 0) =>
    admin.submit.editingItemId = admin.submit.itemId

\* C37 as stated: a step of an update check whose menu load failed or found
\* the stored hash leaves state.menuData and the rendered menu as they were,
\* and no step of a check changes currentCategory or currentSort.
C37_RefreshOnlyOnChange ==
  page.obs.seen =>
    /\ page.obs.menuSame => (page.items = page.obs.items /\ page.grid = page.obs.grid)
    /\ page.currentCategory = page.obs.currentCategory
    /\ page.currentSort = page.obs.currentSort

\* the cards of the items of state.menuData in the current category, in the
\* current order
Shown ==
  renderMenu(SelectSeq(page.items,
                       LAMBDA item : \/ page.currentCategory = "all"
                                     \/ toLowerCase(item.category) = page.currentCategory),
             page.currentSort)

\* C37 amended: a check whose menu load failed or found the stored hash
\* leaves state.menuData as it was, and the rendered menu too when its
\* settings load found no change either; a check that re-renders shows the
\* items of state.menuData in the current category and order; no step of a
\* check changes currentCategory or currentSort.
C37_RefreshShowsState ==
  page.obs.seen =>
    /\ page.obs.menuSame => page.items = page.obs.items
    /\ page.obs.step = "menu" => page.grid = page.obs.grid
    /\ page.obs.step = "resume" =>
         IF page.obs.menuSame /\ page.obs.settingsSame
         THEN page.grid = page.obs.grid
         ELSE page.grid = Shown
    /\ page.currentCategory = page.obs.currentCategory
    /\ page.currentSort = page.obs.currentSort

\* a check whose menu load found the stored hash and whose settings load
\* found a change re-rendered a menu that another check had replaced
C37_Witness ==
  /\ page.obs.seen /\ page.obs.step = "resume"
  /\ page.obs.menuSame /\ ~page.obs.settingsSame
  /\ page.grid # page.obs.grid
  /\ page.currentCategory = "drinks" /\ page.currentSort = "price-desc"

====
